---- MODULE Spec2Model ----
(***************************************************************************)
(* Audio Visualizer Pro: the render pipeline (src/src/pipeline.py), the    *)
(* parallel frame renderer (src/src/parallel_renderer.py) and the audio    *)
(* analyzer with its feature cache (src/src/analyzer.py).                  *)
(*                                                                         *)
(* Durations are rationals: a number of audio samples over a sample rate,  *)
(* as librosa.get_duration(y=y, sr=sr) computes them.  A frame is modelled *)
(* by one 8-bit sample of its pixel buffer.                                *)
(***************************************************************************)
EXTENDS Integers, Sequences, FiniteSets, TLC

VARIABLES
    \* ---- RenderPipeline / PreviewPipeline (pipeline.py) ----
    pc,               \* stage of run(): Idle .. Done, or Failed
    stages,           \* history: the stages run() has entered, in order
    raised,           \* history: the stage in which an error was raised, or "none"
    error,            \* the exception that left run(): [type, detail]
    trace,            \* history: the calls run() has made to its collaborators
    kind,             \* "render" (RenderPipeline) or "preview" (PreviewPipeline)
    preview_mode,     \* run(preview_mode=...)
    preview_duration, \* run(preview_duration=...), in tenths of a second
    has_callback,     \* progress_callback is not None
    parallel,         \* self.parallel
    grain,            \* self.post_processor.grain_intensity > 0
    rng,              \* state of numpy's global random generator
    config,           \* self.config.visual: [resolution, fps]
    config0,          \* history: config.visual immediately before the call
    overridden,       \* PreviewPipeline.run has substituted the preview settings
    original,         \* original_resolution / original_fps of PreviewPipeline.run
    features,         \* the AudioFeatures object: [n, sample_rate, fps, frames]
    visualizer,       \* the visualizer instance: [frame_count]
    i,                \* loop variable of the frame loop
    written,          \* buffers written to process.stdin, in order
    progress_calls,   \* fractions passed to progress_callback, in order
    temp_video,       \* the temp .mp4 exists on disk
    process,          \* the ffmpeg encoder: [state, stdin, returncode, stderr, output]
    export_profile,   \* self.export_profile, or NoProfile
    commands,         \* history: the ffmpeg command lines run() has built and run
    \* ---- ParallelRenderer.render_frames_parallel (parallel_renderer.py) ----
    pr_state,         \* "called", "collecting", "returned" or "raised"
    frame_indices,    \* the argument frame_indices
    chunk_size,       \* the argument chunk_size
    num_workers,      \* self.num_workers
    batches,          \* the list of batches
    pending,          \* batches whose future has not completed yet
    results,          \* the list results, in completion order
    failed,           \* history: batches whose worker raised
    ret,              \* the returned list
    \* ---- StreamingParallelRenderer.render_to_file (parallel_renderer.py) ----
    st_pc,            \* "called", "collecting", "unwinding", "concatenating",
                      \* "returned" or "raised"
    finished,         \* futures that are done: batch index -> "ok" or "raised"
    temp_disk,        \* the batch temp files on disk: batch index -> content
    temp_files,       \* the list temp_files of (batch_idx, temp_path)
    outfile,          \* the content written to output_path
    st_k,             \* position of the concatenation loop in temp_files
    st_order,         \* history: the batches in the order as_completed yielded them
    \* ---- PostProcessor.apply (postprocess.py) ----
    pp_config,        \* the PostProcessor's parameters, in tenths
    pp_frame,         \* the caller's input array: one row of RGB pixels
    pp_frame0,        \* history: the input array before the first call
    pp_outputs,       \* history: the arrays returned by the calls so far
    pp_rng,           \* state of numpy's global random generator
    \* ---- AudioAnalyzer.analyze and the feature cache (analyzer.py) ----
    file,             \* the audio file: [sr, n, large]
    cache,            \* the cache directory: fps of the key -> artifact
    touched,          \* history: the cache was altered from outside since the latest call ended
    an_pc,            \* position inside analyze(): idle, lookup, load, compute, save
    call,             \* the running call: its arguments and what it met so far
    computed,         \* the AudioFeatures built by _extract_features
    last,             \* history: outcome of the latest finished call
    prev,             \* history: outcome of the call before it
    ncalls,           \* number of calls started
    \* ---- concurrent calls of analyze() on one file and fps (analyzer.py) ----
    rc_fps,           \* the fps every concurrent caller passes
    callers,          \* caller -> [pc, status, source, exc, raised_in, timeline]
    writing,          \* callers inside np.savez_compressed on the artifact
    \* ---- UndoRedoManager (keyboard_shortcuts.py) ----
    max_history,      \* self.max_history
    undo_stack,       \* st.session_state.undo_stack
    redo_stack,       \* st.session_state.redo_stack
    pushed,           \* history: the states handed to push_state since the latest clear
    undos,            \* history: undo calls since the latest push
    redos,            \* history: redo calls since the latest undo
    ur_before,        \* history: the undo stack before the first of those undo calls
    ur_ret,           \* history: what the latest undo or redo call returned
    ur_phase,         \* history: the calls since the latest clear are pushes only (push),
                      \* pushes then undos (undo), pushes, undos, then redos (redo),
                      \* or anything else (other)
    \* ---- RealtimeAudioCapture and its block queue (realtime.py) ----
    audio_queue,      \* self._audio_queue: the queued blocks, oldest first
    cb_pc,            \* position of the audio thread inside _audio_callback
    delivered,        \* history: blocks handed to _audio_callback so far
    enqueued,         \* history: the blocks a put_nowait has stored
    got,              \* history: what the latest get_audio_block returned
    \* ---- the pipes between _render_video and the encoder (pipeline.py) ----
    pl_pc,            \* position of _render_video: loop, wait, waited, done
    to_write,         \* frames the frame loop has still to write
    stdin_pipe,       \* frames buffered in the encoder's stdin pipe
    stdin_closed,     \* process.stdin.close() has run
    stderr_pipe,      \* log chunks buffered in the encoder's stderr pipe
    enc_log,          \* log chunks the encoder has still to write before it reads on
    enc_state,        \* running, exited
    \* ---- the cache key of a file that is modified (analyzer.py) ----
    audio,            \* the file at audio_path: [size, mtime, content]
    audio_prev,       \* history: the file before its latest modification
    artifacts,        \* the cache directory: key -> content the timeline was computed from
    edits,            \* history: modifications of the file so far
    key_ret           \* history: the latest analyze call: [fps, key, content, source, edits]

pipelineVars == <<pc, stages, raised, error, trace, kind, preview_mode, preview_duration,
                  has_callback, parallel, grain, rng, config, config0,
                  overridden, original, features, visualizer, i, written, progress_calls,
                  temp_video, process, export_profile, commands>>

parallelVars == <<pr_state, frame_indices, chunk_size, num_workers, batches,
                  pending, results, failed, ret>>

analyzerVars == <<file, cache, touched, an_pc, call, computed, last, prev, ncalls>>

streamingVars == <<st_pc, finished, temp_disk, temp_files, outfile, st_k, st_order>>

postVars == <<pp_config, pp_frame, pp_frame0, pp_outputs, pp_rng>>

raceVars == <<rc_fps, callers, writing>>

undoVars == <<max_history, undo_stack, redo_stack, pushed, undos, redos,
              ur_before, ur_ret, ur_phase>>

captureVars == <<audio_queue, cb_pc, delivered, enqueued, got>>

pipeVars == <<pl_pc, to_write, stdin_pipe, stdin_closed, stderr_pipe, enc_log,
              enc_state>>

keyVars == <<audio, audio_prev, artifacts, edits, key_ret>>

vars == <<pipelineVars, parallelVars, analyzerVars, streamingVars, postVars,
          raceVars, undoVars, captureVars, pipeVars, keyVars>>

\* what the steps of one component leave alone
exceptPipeline == <<parallelVars, analyzerVars, streamingVars, postVars, raceVars,
                    undoVars, captureVars, pipeVars, keyVars>>
exceptParallel == <<pipelineVars, analyzerVars, streamingVars, postVars, raceVars,
                    undoVars, captureVars, pipeVars, keyVars>>
exceptAnalyzer == <<pipelineVars, parallelVars, streamingVars, postVars, raceVars,
                    undoVars, captureVars, pipeVars, keyVars>>
exceptStreaming == <<pipelineVars, analyzerVars, postVars, raceVars, pr_state,
                     results, ret, undoVars, captureVars, pipeVars, keyVars>>
exceptPost == <<pipelineVars, parallelVars, analyzerVars, streamingVars, raceVars,
                undoVars, captureVars, pipeVars, keyVars>>
exceptRace == <<pipelineVars, parallelVars, streamingVars, postVars, file, touched,
                an_pc, call, computed, last, prev, ncalls, undoVars, captureVars, pipeVars, keyVars>>
exceptUndo == <<pipelineVars, parallelVars, analyzerVars, streamingVars, postVars,
                raceVars, captureVars, pipeVars, keyVars>>
exceptCapture == <<pipelineVars, parallelVars, analyzerVars, streamingVars, postVars,
                   raceVars, undoVars, pipeVars, keyVars>>
exceptPipes == <<pipelineVars, parallelVars, analyzerVars, streamingVars, postVars,
                 raceVars, undoVars, captureVars, keyVars>>
exceptKey == <<pipelineVars, parallelVars, analyzerVars, streamingVars, postVars,
               raceVars, undoVars, captureVars, pipeVars>>

(***************************************************************************)
(* Bounds of the model                                                     *)
(***************************************************************************)
\* longest analysed audio, in tenths of a second
MaxTenths == 21
\* longest list of frame indices handed to the parallel renderer
MaxFrames == 4
\* largest chunk size
MaxChunk == 2
\* largest worker pool
MaxWorkers == 3
\* longest short audio file handed to the analyzer, in whole seconds
MaxSeconds == 2
\* calls of analyze() on the same file
MaxCalls == 2
\* pixels in the one-row frames handed to the post-processor
FrameWidth == 3
\* calls of PostProcessor.apply on the same frame
MaxApply == 2
\* concurrent callers of analyze() on the same file and fps
NumCallers == 2
\* largest max_history of an UndoRedoManager
MaxHistory == 3
\* audio blocks the sound driver delivers to one capture
MaxBlocks == 12
\* frames an operating-system pipe buffers, and log chunks alike
PipeCapacity == 2
\* most log chunks the encoder writes after reading one frame
MaxLog == 2
\* modifications of one audio file between calls of analyze()
MaxEdits == 2
\* the audio durations a run may meet, in tenths of a second
Durations == {1, MaxTenths \div 2, MaxTenths}

(***************************************************************************)
(* Program constants                                                       *)
(***************************************************************************)
\* progress is reported every 30 frames
ProgressEvery == 30
\* Settings.preview_fps
PreviewFps == 30
\* target_sr of _analyze_large_file
TargetSr == 22050
\* AudioAnalyzer.MAX_STANDARD_DURATION_SEC
MAX_STANDARD_DURATION_SEC == 600
\* AudioAnalyzer.LONG_FILE_HOP_LENGTH_FACTOR
LONG_FILE_HOP_LENGTH_FACTOR == 4
\* smallest hop length of _extract_features
MinHopLength == 512
\* duration ceiling of the key detection, in seconds
KeyCeilingSec == 600
\* width of the string dtype "<U20" of _save_cache
StrWidth == 20

PreviewResolution == <<854, 480>>
FullResolution == <<1920, 1080>>

StageOrder == <<"Idle", "EnvironmentChecked", "AudioValidated", "Analyzed",
                "GeneratorReady", "Encoding", "Muxing", "Done">>

Min(a, b) == IF a <= b THEN a ELSE b
Max(a, b) == IF a >= b THEN a ELSE b

(***************************************************************************)
(* AudioFeatures.frame_count: int(duration * fps), duration = n/sample_rate *)
(***************************************************************************)
FrameCount(f) == (f.n * f.fps) \div f.sample_rate

\* frames: the length of the per-frame arrays of the timeline
NoFeatures == [n |-> 0, sample_rate |-> 1, fps |-> 1, frames |-> 0]
\* stderr: the text read from the encoder's stderr pipe; output: the encoder
\* has opened its output file
NoProcess == [state |-> "none", stdin |-> "none", returncode |-> 0,
              stderr |-> "", output |-> FALSE]

\* an exception: its type and the diagnostic text its message carries
Exc(type, detail) == [type |-> type, detail |-> detail]
NoError == Exc("none", "")

\* what process.stderr.read() returns; the pipe is read only after a non-zero
\* exit
StderrTexts == {"", "Conversion failed!"}

EncodingErrorBlank(stderr) == Exc("RuntimeError", "")
\* lines 183-184: RuntimeError(f"FFmpeg Fehler beim Video-Encoding: {stderr}")
EncodingError(stderr) == Exc("RuntimeError", stderr)

ExitOkAlways(rc) == TRUE
\* line 182: if process.returncode != 0: raise
ExitOk(rc) == rc = 0

\* export_profiles.py, lines 96-107: the TikTok profile
TikTok == [name |-> "TikTok", resolution |-> <<1080, 1920>>, fps |-> 30,
           ffmpeg_preset |-> "fast", ffmpeg_crf |-> 25,
           ffmpeg_audio_bitrate |-> "128k"]
\* export_profile=None
NoProfile == [name |-> "none", resolution |-> <<0, 0>>, fps |-> 0,
              ffmpeg_preset |-> "", ffmpeg_crf |-> 0, ffmpeg_audio_bitrate |-> ""]

\* Settings.ffmpeg_preset, ffmpeg_crf, ffmpeg_audio_bitrate
DefaultPreset == "medium"
DefaultCrf == 23
DefaultAudioBitrate == "320k"

\* lines 115-142: -s from config.visual.resolution, -r from features.fps,
\* -preset and -crf from the export profile when there is one
EncoderCommand(cfg, f, prof) ==
    [tool |-> "encode",
     size |-> cfg.resolution,
     rate |-> f.fps,
     preset |-> IF prof # NoProfile THEN prof.ffmpeg_preset ELSE DefaultPreset,
     crf |-> IF prof # NoProfile THEN prof.ffmpeg_crf ELSE DefaultCrf,
     audio_bitrate |-> ""]

\* lines 197-211: -c:v copy, -b:a from the export profile when there is one
MuxCommand(prof) ==
    [tool |-> "mux", size |-> <<0, 0>>, rate |-> 0, preset |-> "", crf |-> 0,
     audio_bitrate |-> IF prof # NoProfile THEN prof.ffmpeg_audio_bitrate
                       ELSE DefaultAudioBitrate]

\* line 160: frame = visualizer.render_frame(i), whatever self.parallel is
FrameSource(par) == "render_frame"

(***************************************************************************)
(* The frame generator (plugin): deterministic in the frame index.         *)
(***************************************************************************)
RenderFrameOf(idx) == (idx * 37 + 11) % 256

\* np.clip(x, 0, 255)
Clip(x) == Max(0, Min(255, x))

\* noise samples drawn by np.random.normal in _apply_grain: the generator is
\* a state machine, each draw depends on its state and advances it
NoiseSeq == <<-8, 0, 8>>
Noise == {NoiseSeq[k] : k \in 1..Len(NoiseSeq)}
Draw(r) == NoiseSeq[r + 1]
Advance(r) == (r + 1) % Len(NoiseSeq)

\* PostProcessor.apply with contrast, saturation, brightness, vignette and
\* chromatic aberration neutral: only the grain stage can act
PostApply(frame, g, z) == IF g THEN Clip(frame + z) ELSE frame

PostOutputs(frame, g) == {PostApply(frame, g, z) : z \in Noise}

(***************************************************************************)
(* Progress fractions are kept exact as num/den.                           *)
(***************************************************************************)
Frac(a, b) == [num |-> a, den |-> b]
FracLeq(x, y) == x.num * y.den <= y.num * x.den

\* line 169: if i % 30 == 0 or i == features.frame_count - 1
ProgressDue(idx, fc) == idx % ProgressEvery = 0 \/ idx = fc - 1

FrameProgressPct(idx, fc) == Frac((idx + 1) * 100, fc)
\* line 170: progress = (i + 1) / features.frame_count
FrameProgress(idx, fc) == Frac(idx + 1, fc)

Report(calls, frac) == IF has_callback THEN Append(calls, frac) ELSE calls

(***************************************************************************)
(* Stage bookkeeping                                                       *)
(***************************************************************************)
Enter(stage) == /\ pc' = stage
                /\ stages' = Append(stages, stage)

FailSwallowed(next) == /\ raised' = pc
                       /\ Enter(next)
\* an exception propagates out of run(): nothing later in run() executes
Fail(next) == /\ raised' = pc
              /\ Enter("Failed")

\* PreviewPipeline.run, finally: restore the caller's values
RestoreOnSuccessOnly(cfg, orig, isRaise) ==
    IF kind = "preview" /\ ~isRaise
    THEN [resolution |-> orig.resolution, fps |-> orig.fps] ELSE cfg
RestoreConfig(cfg, orig, isRaise) ==
    IF kind = "preview"
    THEN [resolution |-> orig.resolution, fps |-> orig.fps] ELSE cfg

\* range(features.frame_count) is exhausted
LoopDoneEarly(idx, fc) == idx >= fc - 1
LoopDone(idx, fc) == idx >= fc

(***************************************************************************)
(* Init                                                                    *)
(***************************************************************************)
PipelineInit ==
    /\ pc = "Idle"
    /\ stages = <<"Idle">>
    /\ raised = "none"
    /\ error = NoError
    /\ trace = <<>>
    /\ kind \in {"render", "preview"}
    /\ preview_mode \in BOOLEAN
    /\ (kind = "preview" => preview_mode)
    /\ preview_duration \in {5, 10, 50}
    /\ (~preview_mode => preview_duration = 50)
    /\ export_profile \in {NoProfile, TikTok}
    /\ commands = <<>>
    /\ has_callback \in BOOLEAN
    /\ parallel \in BOOLEAN
    /\ grain \in BOOLEAN
    /\ rng \in 0..1
    /\ (~grain => rng = 0)
    /\ config \in [resolution : {FullResolution, PreviewResolution}, fps : {30, 60}]
    /\ config0 = config
    /\ overridden = FALSE
    /\ original = config
    /\ features = NoFeatures
    /\ visualizer = [frame_count |-> 0]
    /\ i = 0
    /\ written = <<>>
    /\ progress_calls = <<>>
    /\ temp_video = FALSE
    /\ process = NoProcess

(***************************************************************************)
(* PreviewPipeline.run, lines 231-242: remember and override the config    *)
(***************************************************************************)
PreviewOverride ==
    /\ pc = "Idle" /\ kind = "preview" /\ ~overridden
    /\ original' = config
    /\ config' = [resolution |-> PreviewResolution, fps |-> PreviewFps]
    /\ overridden' = TRUE
    /\ UNCHANGED <<pc, stages, raised, error, trace, kind, preview_mode,
                   preview_duration, has_callback, parallel, grain, rng, config0,
                   features, visualizer, i, written, progress_calls, temp_video,
                   process, export_profile, commands>>

Entered == kind = "render" \/ overridden

\* what every step of run() leaves alone
RunFrame == UNCHANGED <<kind, preview_mode, preview_duration, has_callback,
                        parallel, grain, config0, overridden, original,
                        export_profile>>

\* a step of run() completes without an exception
Proceed(stage) ==
    /\ Enter(stage)
    /\ UNCHANGED <<raised, error, config>>

RaiseLogged(stage, e) ==
    /\ Enter(stage)
    /\ error' = e
    /\ UNCHANGED <<raised, config>>
\* a step of run() raises e: the exception leaves run(), and PreviewPipeline's
\* finally clause restores the configuration
Raise(stage, e) ==
    /\ Fail(stage)
    /\ error' = e
    /\ config' = RestoreConfig(config, original, TRUE)

\* line 63: verify_ffmpeg_or_raise()
VerifyFfmpeg ==
    /\ pc = "Idle" /\ Entered
    /\ trace' = Append(trace, "verify_ffmpeg_or_raise")
    /\ \/ Proceed("EnvironmentChecked")
       \/ Raise("EnvironmentChecked", Exc("FFmpegError", ""))
    /\ RunFrame
    /\ UNCHANGED <<rng, features, visualizer, i, written, progress_calls,
                   temp_video, process, commands>>

\* lines 66-67: validate_audio_file(self.config.audio_file)
ValidateAudio ==
    /\ pc = "EnvironmentChecked"
    /\ trace' = Append(trace, "validate_audio_file")
    /\ \/ Proceed("AudioValidated")
       \/ Raise("AudioValidated", Exc("AudioValidationError", ""))
    /\ RunFrame
    /\ UNCHANGED <<rng, features, visualizer, i, written, progress_calls,
                   temp_video, process, commands>>

\* lines 70-73: features = self.analyzer.analyze(path, fps=self.config.visual.fps)
Analyze ==
    /\ pc = "AudioValidated"
    /\ trace' = Append(trace, "analyze")
    /\ \/ \E t \in Durations :
            /\ features' = [n |-> (t * TargetSr) \div 10,
                            sample_rate |-> TargetSr,
                            fps |-> config.fps,
                            frames |-> (((t * TargetSr) \div 10) * config.fps) \div TargetSr]
            /\ Proceed("Analyzed")
       \/ /\ Raise("Analyzed", Exc("AnalysisError", ""))
          /\ UNCHANGED features
    /\ RunFrame
    /\ UNCHANGED <<rng, visualizer, i, written, progress_calls, temp_video, process,
                   commands>>

\* lines 79-82: VisualizerRegistry.get, visualizer_class(config, features), setup();
\* BaseVisualizer.__init__ computes frame_count from the features it is given
SetupVisualizer ==
    /\ pc = "Analyzed"
    /\ trace' = Append(trace, "setup")
    /\ \/ /\ visualizer' = [frame_count |-> FrameCount(features)]
          /\ Proceed("GeneratorReady")
       \/ /\ Raise("GeneratorReady", Exc("GeneratorError", ""))
          /\ UNCHANGED visualizer
    /\ RunFrame
    /\ UNCHANGED <<rng, features, i, written, progress_calls, temp_video, process,
                   commands>>

\* line 88: features.duration = min(preview_duration, features.duration)
ClampDuration(f) ==
    IF preview_mode
    THEN [f EXCEPT !.n = Min((preview_duration * f.sample_rate) \div 10, f.n)]
    ELSE f

\* lines 85-88 and _render_video lines 104-156: clamp the duration in preview
\* mode, create the temp file, report 0.0, start the encoder
StartRender ==
    /\ pc = "GeneratorReady"
    /\ features' = ClampDuration(features)
    /\ \/ /\ Proceed("Encoding")
          /\ trace' = trace \o <<"NamedTemporaryFile", "Popen">>
          /\ commands' = Append(commands,
                                EncoderCommand(config, features', export_profile))
          /\ temp_video' = TRUE
          /\ progress_calls' = Report(progress_calls, Frac(0, 1))
          /\ process' = [NoProcess EXCEPT !.state = "running", !.stdin = "open"]
       \/ \* NamedTemporaryFile raises, ahead of the try: no file was created
          /\ Raise("Encoding", Exc("OSError", ""))
          /\ trace' = trace \o <<"NamedTemporaryFile">>
          /\ UNCHANGED <<temp_video, progress_calls, process, commands>>
       \/ \* subprocess.Popen raises: the finally clause unlinks the temp file
          /\ Raise("Encoding", Exc("OSError", ""))
          /\ trace' = trace \o <<"NamedTemporaryFile", "Popen", "unlink">>
          /\ commands' = Append(commands,
                                EncoderCommand(config, features', export_profile))
          /\ temp_video' = FALSE
          /\ progress_calls' = Report(progress_calls, Frac(0, 1))
          /\ UNCHANGED process
    /\ RunFrame
    /\ UNCHANGED <<rng, visualizer, i, written>>

\* lines 159-174: one iteration of the frame loop
RenderFrame ==
    /\ pc = "Encoding" /\ process.state = "running" /\ process.stdin = "open"
    /\ ~LoopDone(i, FrameCount(features))
    /\ \/ /\ written' = Append(written,
                    [index |-> i,
                     via |-> FrameSource(parallel),
                     bytes |-> PostApply(RenderFrameOf(i), grain, Draw(rng))])
          /\ rng' = IF grain THEN Advance(rng) ELSE rng
          /\ progress_calls' =
                IF ProgressDue(i, FrameCount(features))
                THEN Report(progress_calls, FrameProgress(i, FrameCount(features)))
                ELSE progress_calls
          /\ i' = i + 1
          /\ UNCHANGED <<pc, stages, raised, error, trace, config, temp_video,
                         process>>
       \/ \* render_frame or apply raises: only the finally clause runs, the
          \* encoder is neither closed nor waited for
          /\ \E e \in {"GeneratorError", "PostProcessError"} :
                Raise("Encoding", Exc(e, ""))
          /\ trace' = Append(trace, "unlink")
          /\ temp_video' = FALSE
          /\ UNCHANGED <<rng, written, progress_calls, i, process>>
       \/ \* stdin.write raises: the encoder has exited and the pipe is broken
          /\ Raise("Encoding", Exc("BrokenPipeError", ""))
          /\ trace' = Append(trace, "unlink")
          /\ temp_video' = FALSE
          /\ process' = [process EXCEPT !.state = "exited", !.returncode = 1]
          /\ UNCHANGED <<rng, written, progress_calls, i>>
    /\ RunFrame
    /\ UNCHANGED <<features, visualizer, commands>>

\* lines 129-143: the encoder was started with "-y <temp_video.name>" as its
\* output; it opens (creates or truncates) that path on its own schedule,
\* for as long as it runs
EncoderOpensOutput ==
    /\ process.state = "running" /\ ~process.output
    /\ process' = [process EXCEPT !.output = TRUE]
    /\ temp_video' = TRUE
    /\ RunFrame
    /\ UNCHANGED <<pc, stages, raised, error, trace, rng, config, features,
                   visualizer, i, written, progress_calls, commands>>

\* lines 179-184: process.stdin.close(); process.wait(); check the return code
FinishEncoding ==
    /\ pc = "Encoding" /\ process.state = "running"
    /\ LoopDone(i, FrameCount(features))
    /\ \E rc \in {0, 1}, text \in StderrTexts :
         /\ rc = 0 => (process.output /\ text = "")
         /\ process' = [process EXCEPT !.state = "exited", !.stdin = "closed",
                                       !.returncode = rc, !.stderr = text]
         /\ IF ExitOk(rc)
            THEN /\ Proceed("Muxing")
                 /\ trace' = trace \o <<"stdin.close", "wait">>
                 /\ UNCHANGED temp_video
            ELSE /\ Raise("Muxing", EncodingError(text))
                 /\ trace' = trace \o <<"stdin.close", "wait", "unlink">>
                 /\ temp_video' = FALSE
    /\ RunFrame
    /\ UNCHANGED <<rng, features, visualizer, i, written, progress_calls, commands>>

\* lines 187-191 and 92-93: _mux_audio, the finally clause, progress 1.0
MuxAudio ==
    /\ pc = "Muxing"
    /\ temp_video' = FALSE
    /\ commands' = Append(commands, MuxCommand(export_profile))
    /\ \/ /\ Enter("Done")
          /\ trace' = trace \o <<"_mux_audio", "unlink">>
                            \o (IF has_callback THEN <<"Fertig!">> ELSE <<>>)
          /\ progress_calls' = Report(progress_calls, Frac(1, 1))
          /\ config' = RestoreConfig(config, original, FALSE)
          /\ UNCHANGED <<raised, error>>
       \/ /\ Raise("Done", Exc("RuntimeError", "mux"))
          /\ trace' = trace \o <<"_mux_audio", "unlink">>
          /\ UNCHANGED progress_calls
    /\ RunFrame
    /\ UNCHANGED <<rng, features, visualizer, i, written, process>>

(***************************************************************************)
(* ParallelRenderer (parallel_renderer.py)                                 *)
(***************************************************************************)
Range(n) == [k \in 1..n |-> k - 1]

\* the lists of distinct frame indices below MaxFrames, in any order
RECURSIVE Arrangements(_)
Arrangements(S) ==
    IF S = {} THEN {<<>>}
    ELSE {<<>>} \cup UNION {{<<x>> \o t : t \in Arrangements(S \ {x})} : x \in S}

\* [(idx, render_func(idx)) for idx in frame_indices]
RenderList(l) == [k \in 1..Len(l) |-> <<l[k], RenderFrameOf(l[k])>>]

\* lines 95-98: frame_indices[i : i + chunk_size] for i in range(0, len, chunk_size)
NumBatches(l, c) == (Len(l) + c - 1) \div c
Batch(l, c, b) == SubSeq(l, (b - 1) * c + 1, Min(b * c, Len(l)))
MakeBatches(l, c) == [b \in 1..NumBatches(l, c) |-> Batch(l, c, b)]

\* list.sort(key=lambda x: x[0]): stable, ascending in the frame index
InsertByIndex(t, x) ==
    LET p == Cardinality({k \in 1..Len(t) : t[k][1] <= x[1]})
    IN SubSeq(t, 1, p) \o <<x>> \o SubSeq(t, p + 1, Len(t))

RECURSIVE StableSort(_)
StableSort(r) ==
    IF Len(r) <= 1 THEN r
    ELSE InsertByIndex(StableSort(SubSeq(r, 1, Len(r) - 1)), r[Len(r)])

NoSort(r) == r
\* line 133: results.sort(key=lambda x: x[0])
SortByIndex(r) == StableSort(r)

\* line 90: few frames or a single worker: render directly
Direct(l, c, w) == Len(l) < c * 2 \/ w = 1

SkipBatch(state) == state
\* lines 128-130: except Exception as e: logger.error(...); raise
OnBatchError(state) == "raised"

\* a future can complete once a worker has taken its batch: the pool runs at
\* most num_workers batches at a time and starts them in submission order
Started(b) == Cardinality({x \in pending : x < b}) < num_workers

ParallelInit ==
    /\ pr_state = "called"
    /\ frame_indices \in Arrangements(0..(MaxFrames - 1))
    /\ chunk_size \in 1..MaxChunk
    /\ num_workers \in 1..MaxWorkers
    /\ batches = <<>>
    /\ pending = {}
    /\ results = <<>>
    /\ failed = {}
    /\ ret = <<>>

ParallelIdle ==
    /\ pr_state = "returned"
    /\ frame_indices = <<>>
    /\ chunk_size = 1
    /\ num_workers = 1
    /\ batches = <<>>
    /\ pending = {}
    /\ results = <<>>
    /\ failed = {}
    /\ ret = <<>>

\* lines 86-87: an empty list returns []
ReturnEmpty ==
    /\ pr_state = "called" /\ Len(frame_indices) = 0
    /\ ret' = <<>>
    /\ pr_state' = "returned"
    /\ UNCHANGED <<frame_indices, chunk_size, num_workers, batches, pending, results,
                   failed>>

\* lines 90-92: direct rendering in the calling process
RenderDirect ==
    /\ pr_state = "called" /\ Len(frame_indices) > 0
    /\ Direct(frame_indices, chunk_size, num_workers)
    /\ \/ /\ ret' = RenderList(frame_indices)
          /\ pr_state' = "returned"
       \/ \* render_func raises
          /\ pr_state' = "raised"
          /\ UNCHANGED ret
    /\ UNCHANGED <<frame_indices, chunk_size, num_workers, batches, pending, results,
                   failed>>

\* lines 95-112: split into batches and submit every batch to the pool
SubmitBatches ==
    /\ pr_state = "called" /\ Len(frame_indices) > 0
    /\ ~Direct(frame_indices, chunk_size, num_workers)
    /\ batches' = MakeBatches(frame_indices, chunk_size)
    /\ pending' = 1..NumBatches(frame_indices, chunk_size)
    /\ pr_state' = "collecting"
    /\ UNCHANGED <<frame_indices, chunk_size, num_workers, results, failed, ret>>

\* lines 115-130: as_completed yields a finished future; its result extends
\* results, or its exception is re-raised
CollectBatch ==
    /\ pr_state = "collecting"
    /\ \E b \in pending :
         /\ Started(b)
         /\ pending' = pending \ {b}
         /\ \/ /\ results' = results \o RenderList(batches[b])
               /\ UNCHANGED <<pr_state, failed>>
            \/ /\ pr_state' = OnBatchError(pr_state)
               /\ failed' = failed \cup {b}
               /\ UNCHANGED results
    /\ UNCHANGED <<frame_indices, chunk_size, num_workers, batches, ret>>

\* lines 132-135: sort by frame index and return
SortAndReturn ==
    /\ pr_state = "collecting" /\ pending = {}
    /\ ret' = SortByIndex(results)
    /\ pr_state' = "returned"
    /\ UNCHANGED <<frame_indices, chunk_size, num_workers, batches, pending, results,
                   failed>>

(***************************************************************************)
(* StreamingParallelRenderer.render_to_file (parallel_renderer.py)         *)
(***************************************************************************)
\* a map without its key b
Without(f, b) == [x \in (DOMAIN f) \ {b} |-> f[x]]

\* lines 225-229: the bytes _render_batch_to_temp writes for a batch
BatchBytes(batch) == [k \in 1..Len(batch) |-> RenderFrameOf(batch[k])]

\* the batches whose result the as_completed loop has taken
Collected == {temp_files[k][1] : k \in 1..Len(temp_files)} \cup failed

StreamingIdle ==
    /\ st_pc = "returned"
    /\ finished = <<>>
    /\ temp_disk = <<>>
    /\ temp_files = <<>>
    /\ outfile = <<>>
    /\ st_k = 0
    /\ st_order = <<>>

\* render_to_file(render_func, frame_indices, output_path, frame_shape, chunk_size)
StreamingInit ==
    /\ st_pc = "called"
    /\ finished = <<>>
    /\ temp_disk = <<>>
    /\ temp_files = <<>>
    /\ outfile = <<>>
    /\ st_k = 0
    /\ st_order = <<>>
    /\ pr_state = "returned"
    /\ frame_indices \in Arrangements(0..(MaxFrames - 1))
    /\ chunk_size \in 1..MaxChunk
    /\ num_workers \in 1..MaxWorkers
    /\ batches = <<>>
    /\ pending = {}
    /\ results = <<>>
    /\ failed = {}
    /\ ret = <<>>

\* lines 176-190: split into batches and submit _render_batch_to_temp for each
StSubmit ==
    /\ UNCHANGED st_order
    /\ st_pc = "called"
    /\ batches' = MakeBatches(frame_indices, chunk_size)
    /\ pending' = 1..NumBatches(frame_indices, chunk_size)
    /\ st_pc' = "collecting"
    /\ UNCHANGED <<frame_indices, chunk_size, num_workers, failed, finished,
                   temp_disk, temp_files, outfile, st_k>>

\* lines 214-231, in a worker process: create the batch's temp file, render
\* and write its frames; a render_func that raises leaves the file behind with
\* the frames written so far.  The pool runs every submitted batch, also while
\* the executor is shut down after an error.
StWorker ==
    /\ UNCHANGED st_order
    /\ st_pc \in {"collecting", "unwinding"}
    /\ \E b \in pending :
         /\ Started(b)
         /\ pending' = pending \ {b}
         /\ \/ /\ temp_disk' = (b :> BatchBytes(batches[b])) @@ temp_disk
               /\ finished' = (b :> "ok") @@ finished
            \/ \E n \in 0..(Len(batches[b]) - 1) :
                  /\ temp_disk' = (b :> SubSeq(BatchBytes(batches[b]), 1, n)) @@ temp_disk
                  /\ finished' = (b :> "raised") @@ finished
    /\ UNCHANGED <<st_pc, frame_indices, chunk_size, num_workers, batches, failed,
                   temp_files, outfile, st_k>>

\* lines 192-200: as_completed yields a finished future; its path is appended
\* to temp_files, or its exception is logged and re-raised
StCollect ==
    /\ st_pc = "collecting"
    /\ \E b \in (DOMAIN finished) \ Collected :
         IF finished[b] = "ok"
         THEN /\ temp_files' = Append(temp_files, <<b, b>>)
              /\ st_order' = Append(st_order, b)
              /\ UNCHANGED <<st_pc, failed>>
         ELSE /\ st_pc' = "unwinding"
              /\ failed' = failed \cup {b}
              /\ UNCHANGED <<temp_files, st_order>>
    /\ UNCHANGED <<frame_indices, chunk_size, num_workers, batches, pending,
                   finished, temp_disk, outfile, st_k>>

\* line 187: leaving the with block waits for the batches still in the pool,
\* then the exception leaves render_to_file
StUnwind ==
    /\ UNCHANGED st_order
    /\ st_pc = "unwinding" /\ pending = {}
    /\ st_pc' = "raised"
    /\ UNCHANGED <<frame_indices, chunk_size, num_workers, batches, pending, failed,
                   finished, temp_disk, temp_files, outfile, st_k>>

\* lines 203-206: sort temp_files by batch index and open output_path
StOpenOutput ==
    /\ UNCHANGED st_order
    /\ st_pc = "collecting"
    /\ Collected = 1..Len(batches) /\ failed = {}
    /\ temp_files' = SortByIndex(temp_files)
    /\ \/ /\ st_pc' = "concatenating"
          /\ UNCHANGED temp_disk
       \/ \* open(output_path, "wb") raises
          /\ st_pc' = "raised"
          /\ UNCHANGED temp_disk
    /\ UNCHANGED <<frame_indices, chunk_size, num_workers, batches, pending, failed,
                   finished, outfile, st_k>>

\* lines 207-210: append one temp file to the output and unlink it
StConcat ==
    /\ UNCHANGED st_order
    /\ st_pc = "concatenating" /\ st_k < Len(temp_files)
    /\ LET path == temp_files[st_k + 1][2]
       IN \/ /\ outfile' = outfile \o temp_disk[path]
             /\ temp_disk' = Without(temp_disk, path)
             /\ st_k' = st_k + 1
             /\ UNCHANGED st_pc
          \/ \* reading the temp file or writing the output raises
             /\ st_pc' = "raised"
             /\ UNCHANGED <<outfile, temp_disk, st_k>>
    /\ UNCHANGED <<frame_indices, chunk_size, num_workers, batches, pending, failed,
                   finished, temp_files>>

\* line 212: the loop is exhausted, render_to_file returns
StReturn ==
    /\ UNCHANGED st_order
    /\ st_pc = "concatenating" /\ st_k = Len(temp_files)
    /\ st_pc' = "returned"
    /\ UNCHANGED <<frame_indices, chunk_size, num_workers, batches, pending, failed,
                   finished, temp_disk, temp_files, outfile, st_k>>

(***************************************************************************)
(* PostProcessor (postprocess.py).  Parameters are in tenths; a frame is    *)
(* one row of RGB pixels (h = 1).                                          *)
(***************************************************************************)
Colours == {<<255, 0, 0>>, <<10, 120, 250>>, <<128, 128, 128>>}
Frames == [1..FrameWidth -> Colours]

PostConfigs == [contrast : {5, 10, 15}, saturation : {5, 10, 15},
                brightness : {5, 10, 15}, grain : {0, 5},
                vignette : {0, 5, 10}, chromatic : {0, 3, 5}]

\* lines 25-33: the defaults of config.get
NeutralConfig == [contrast |-> 10, saturation |-> 10, brightness |-> 10,
                  grain |-> 0, vignette |-> 0, chromatic |-> 0]

Abs(x) == IF x < 0 THEN -x ELSE x

\* line 70: Image.fromarray(frame) copies the pixels into an RGB image
FromArray(frame) == [mode |-> "RGB", px |-> frame]

ImageToArrayBGR(img) == [x \in DOMAIN img.px |-> <<img.px[x][3], img.px[x][2], img.px[x][1]>>]
\* line 88: np.array(img) copies the pixels into a new array
ImageToArray(img) == img.px

\* Image.convert("L"): the ITU-R 601-2 luma, in 16-bit fixed point
Luma(p) == (p[1] * 19595 + p[2] * 38470 + p[3] * 7471 + 32768) \div 65536

\* Image.blend(in1, in2, alpha) on one channel: interpolates and truncates
\* for alpha in [0, 1], extrapolates and clips beyond
Blend(in1, in2, a10) ==
    LET t10 == in1 * 10 + a10 * (in2 - in1)
    IN IF t10 <= 0 THEN 0
       ELSE IF t10 >= 2550 THEN 255
       ELSE t10 \div 10

BlendPixel(d, p, a10) == <<Blend(d[1], p[1], a10), Blend(d[2], p[2], a10),
                           Blend(d[3], p[3], a10)>>

RECURSIVE SumLuma(_, _)
SumLuma(px, n) == IF n = 0 THEN 0 ELSE Luma(px[n]) + SumLuma(px, n - 1)

\* lines 73-75: ImageEnhance.Contrast blends with the mean grey of the image
EnhanceContrast(img, f10) ==
    LET w == Len(img.px)
        mean == (2 * SumLuma(img.px, w) + w) \div (2 * w)
    IN [img EXCEPT !.px = [x \in 1..w |->
                              BlendPixel(<<mean, mean, mean>>, img.px[x], f10)]]

\* lines 78-80: ImageEnhance.Color blends with the greyscale image
EnhanceColor(img, f10) ==
    [img EXCEPT !.px = [x \in 1..Len(img.px) |->
        LET l == Luma(img.px[x]) IN BlendPixel(<<l, l, l>>, img.px[x], f10)]]

\* lines 83-85: ImageEnhance.Brightness blends with black
EnhanceBrightness(img, f10) ==
    [img EXCEPT !.px = [x \in 1..Len(img.px) |->
                           BlendPixel(<<0, 0, 0>>, img.px[x], f10)]]

\* np.random.normal(0, grain_intensity * 50, frame.shape): the standard
\* deviation, and the sample of element e drawn in generator state r
Sigma(g10) == g10 * 5
UnitNoise == <<-1, 0, 1>>
NoiseAt(r, e) == UnitNoise[((r + e) % Len(UnitNoise)) + 1]

\* lines 106-110: _apply_grain
ApplyGrain(frame, g10, r) ==
    [x \in 1..Len(frame) |->
        [c \in 1..3 |-> Clip(frame[x][c] + NoiseAt(r, 3 * (x - 1) + c) * Sigma(g10))]]

\* lines 112-129: _apply_vignette for h = 1: center_y = 0, so the distance of
\* column x is |x - center_x| and max_dist is center_x; the mask
\* 1 - dist / max_dist * vignette is clipped to [0.3, 1.0]
ApplyVignette(frame, v10) ==
    LET w == Len(frame)
        cx == w \div 2
        mask(x) == Max(3 * cx, Min(10 * cx, 10 * cx - Abs((x - 1) - cx) * v10))
    IN [x \in 1..w |-> [c \in 1..3 |-> (frame[x][c] * mask(x)) \div (10 * cx)]]

\* lines 131-147: _apply_chromatic_aberration; red moves left, blue right
ApplyChromatic(frame, c10) ==
    LET w == Len(frame)
        shift == (c10 * 3) \div 10
    IN IF shift = 0 THEN frame
       ELSE [x \in 1..w |->
               <<IF x + shift <= w THEN frame[x + shift][1] ELSE frame[x][1],
                 frame[x][2],
                 IF x - shift >= 1 THEN frame[x - shift][3] ELSE frame[x][3]>>]

\* lines 61-104: PostProcessor.apply
Apply(frame, cfg, r) ==
    LET img0 == FromArray(frame)
        img1 == IF cfg.contrast # 10 THEN EnhanceContrast(img0, cfg.contrast) ELSE img0
        img2 == IF cfg.saturation # 10 THEN EnhanceColor(img1, cfg.saturation) ELSE img1
        img3 == IF cfg.brightness # 10 THEN EnhanceBrightness(img2, cfg.brightness) ELSE img2
        res0 == ImageToArray(img3)
        res1 == IF cfg.grain > 0 THEN ApplyGrain(res0, cfg.grain, r) ELSE res0
        res2 == IF cfg.vignette > 0 THEN ApplyVignette(res1, cfg.vignette) ELSE res1
    IN IF cfg.chromatic > 0 THEN ApplyChromatic(res2, cfg.chromatic) ELSE res2

PostInit ==
    /\ pp_config \in PostConfigs
    /\ pp_frame \in Frames
    /\ pp_frame0 = pp_frame
    /\ pp_outputs = <<>>
    /\ pp_rng \in 0..(Len(UnitNoise) - 1)
    /\ (pp_config.grain = 0 => pp_rng = 0)

PostIdle ==
    /\ pp_config = NeutralConfig
    /\ pp_frame = [x \in 1..FrameWidth |-> <<128, 128, 128>>]
    /\ pp_frame0 = pp_frame
    /\ pp_outputs = <<>>
    /\ pp_rng = 0

\* one call result = self.apply(frame): the result is a new array, the
\* argument is only read, and _apply_grain consumes the global generator
PostProcessApply ==
    /\ Len(pp_outputs) < MaxApply
    /\ pp_outputs' = Append(pp_outputs, Apply(pp_frame, pp_config, pp_rng))
    /\ pp_rng' = IF pp_config.grain > 0 THEN Advance(pp_rng) ELSE pp_rng
    /\ UNCHANGED <<pp_config, pp_frame, pp_frame0>>

(***************************************************************************)
(* AudioAnalyzer (analyzer.py): pure parts                                 *)
(***************************************************************************)
\* Optional[str]
None == [some |-> FALSE, val |-> ""]
Some(v) == [some |-> TRUE, val |-> v]

FpsValues == {30, 60}
NativeRates == {TargetSr, TargetSr * 2}

\* sample counts of the audio files: whole seconds plus a fraction of a frame
\* interval, and one file longer than MAX_STANDARD_DURATION_SEC
ExtraSamples == {0, 500}
FileLengths(sr) ==
    {sec * sr + x : sec \in 0..MaxSeconds, x \in ExtraSamples}
        \cup {(MAX_STANDARD_DURATION_SEC + 1) * sr + x : x \in ExtraSamples}

Files == UNION {[sr : {r}, n : FileLengths(r), large : BOOLEAN] : r \in NativeRates}

IsLongNever(f, probeOk) == FALSE

\* line 79-80: is_large_file is the size test; is_long_file compares the
\* probed duration n/sr with MAX_STANDARD_DURATION_SEC (0 when the probe fails)
IsLong(f, probeOk) == probeOk /\ f.n > MAX_STANDARD_DURATION_SEC * f.sr

\* librosa.load(sr=None) keeps the native rate; librosa.load(sr=target_sr)
\* resamples to ceil(n * target_sr / sr) samples
\* (the native rates are multiples of target_sr)
Decoded(f, memoryBounded) ==
    IF memoryBounded
    THEN [sr |-> TargetSr,
          len |-> (f.n + (f.sr \div TargetSr) - 1) \div (f.sr \div TargetSr)]
    ELSE [sr |-> f.sr, len |-> f.n]

\* line 182: hop_length = max(int(sr / analysis_fps), 512), where analysis_fps
\* is fps / LONG_FILE_HOP_LENGTH_FACTOR for long files
HopLength(sr, fps, reduced) ==
    Max((sr * (IF reduced THEN LONG_FILE_HOP_LENGTH_FACTOR ELSE 1)) \div fps,
        MinHopLength)

\* frames librosa yields for len samples at a hop length (centered frames)
NaturalFrames(len, hop) == 1 + len \div hop

\* line 264: target_frames = int(duration * fps)
TargetFrames(len, sr, fps) == (len * fps) \div sr

\* Python round(duration * fps): round half to even
RoundFrames(len, sr, fps) ==
    LET q == (len * fps) \div sr
        r == (len * fps) % sr
    IN IF 2 * r < sr THEN q
       ELSE IF 2 * r > sr THEN q + 1
       ELSE IF q % 2 = 0 THEN q ELSE q + 1

\* a feature array is its length and a digest of its values
Feature(tag, len, hop) == [len |-> NaturalFrames(len, hop),
                           bits |-> (len \div hop + tag) % 5]
Matrix(rows, tag, len, hop) == [rows |-> rows, cols |-> NaturalFrames(len, hop),
                                bits |-> (len \div hop + tag) % 5]

NoInterpolate(data, target) == data
\* lines 343-352: _interpolate_to_length
InterpolateToLength(data, target) ==
    IF data.len = target THEN data
    ELSE [len |-> target, bits |-> (data.bits * 3 + target) % 5]

\* lines 305-333: _interpolate_chroma / _interpolate_2d
Interpolate2d(m, target) ==
    IF m.cols = target THEN m
    ELSE [rows |-> m.rows, cols |-> target, bits |-> (m.bits * 3 + target) % 5]

\* lines 335-341: _normalize keeps the shape
Normalize(data) == [data EXCEPT !.bits = (data.bits + 1) % 5]

KeyNames == <<"C", "C#", "D", "D#", "E", "F", "F#", "G", "G#", "A", "A#", "B">>
\* lines 370-375: _estimate_key
EstimateKey(len) == KeyNames[(len % Len(KeyNames)) + 1] \o " major"
\* lines 354-368: _detect_mode
DetectMode(len) == IF len % 2 = 0 THEN "music" ELSE "speech"

\* lines 176-299: the AudioFeatures object _extract_features builds
ExtractFeatures(len, sr, fps, reduced) ==
    LET hop == HopLength(sr, fps, reduced)
        target == TargetFrames(len, sr, fps)
    IN [duration |-> [n |-> len, sr |-> sr],
        sample_rate |-> sr,
        fps |-> fps,
        rms |-> InterpolateToLength(Normalize(Feature(1, len, hop)), target),
        onset |-> InterpolateToLength(Normalize(Feature(2, len, hop)), target),
        spectral_centroid |->
            Normalize(InterpolateToLength(Feature(3, len, hop), target)),
        spectral_rolloff |->
            Normalize(InterpolateToLength(Feature(4, len, hop), target)),
        zero_crossing_rate |->
            Normalize(InterpolateToLength(Feature(5, len, hop), target)),
        chroma |-> Interpolate2d(Matrix(12, 6, len, hop), target),
        mfcc |-> Interpolate2d(Matrix(13, 7, len, hop), target),
        tempogram |-> Interpolate2d(Matrix(384, 8, len, hop), target),
        tempo |-> 90 + 30 * (len % 3),
        key |-> IF len < KeyCeilingSec * sr THEN Some(EstimateKey(len)) ELSE None,
        mode |-> DetectMode(len)]

NoTimeline == ExtractFeatures(0, 1, 1, FALSE)

\* np.array(v, dtype="<U20") keeps at most 20 characters
Truncate(str) == IF Len(str) <= StrWidth THEN str ELSE SubSeq(str, 1, StrWidth)

\* lines 380-388: a str is stored as a string array, None as "__NONE__"
SaveOptional(v) == IF v.some THEN Truncate(v.val) ELSE "__NONE__"

\* lines 377-389: _save_cache, the dictionary handed to np.savez_compressed
Serialize(tl) == [tl EXCEPT !.key = SaveOptional(tl.key),
                            !.mode = SaveOptional(Some(tl.mode))]

LoadStringVerbatim(str) == Some(str)
\* lines 107-116: "__NONE__" and "None" come back as None
LoadString(str) ==
    IF str = "__NONE__" \/ str = "None" THEN None ELSE Some(str)

\* lines 101-126: _load_from_cache on a readable archive; AudioFeatures(**data)
\* rejects a mode outside its Literal with a ValidationError (a ValueError)
Deserialize(data) ==
    LET k == LoadString(data.key)
        m == LoadString(data.mode)
    IN IF m.some /\ m.val \in {"music", "speech", "hybrid"}
       THEN [exc |-> "none", timeline |-> [data EXCEPT !.key = k, !.mode = m.val]]
       ELSE [exc |-> "ValueError", timeline |-> NoTimeline]

Raises(e) == [exc |-> e, timeline |-> NoTimeline]

ArtifactKinds == {"absent", "valid", "truncated", "empty", "garbage",
                  "missing_field", "extra_field"}
CorruptKinds == ArtifactKinds \ {"absent", "valid"}

NoArtifact == [kind |-> "absent", data |-> Serialize(NoTimeline)]

\* what _load_from_cache does on each artifact.  A truncated archive makes
\* zipfile raise BadZipFile, an empty file makes np.load raise EOFError, a file
\* that is no archive raises UnpicklingError or OSError depending on the numpy
\* release, a missing field fails the AudioFeatures validation (ValueError),
\* an extra field is ignored by the model
LoadOutcomes(a) ==
    CASE a.kind = "absent" -> {Raises("FileNotFoundError")}
      [] a.kind = "valid" -> {Deserialize(a.data)}
      [] a.kind = "truncated" -> {Raises("BadZipFile")}
      [] a.kind = "empty" -> {Raises("EOFError")}
      [] a.kind = "garbage" -> {Raises("UnpicklingError"), Raises("OSError")}
      [] a.kind = "missing_field" -> {Raises("ValueError")}
      [] a.kind = "extra_field" -> {Deserialize(a.data)}

CaughtAll == {"FileNotFoundError", "OSError", "ValueError", "BadZipFile",
              "EOFError", "UnpicklingError"}
\* line 64: except (FileNotFoundError, OSError, ValueError)
Caught == {"FileNotFoundError", "OSError", "ValueError"}

(***************************************************************************)
(* AudioAnalyzer.analyze, step by step                                     *)
(***************************************************************************)
\* lines 72-95 and 135-165: the strategy analyze() selects for a file: how it
\* decodes, and what _extract_features does when effective_fps is passed,
\* which _analyze_large_file does only when the probed duration is above
\* MAX_STANDARD_DURATION_SEC
NoStrategy == [name |-> "none", probed |-> FALSE, sr |-> 1, hop |-> 1,
               chroma |-> "none", tempogram |-> "none"]

StrategyOf(f, probeOk, fps) ==
    LET long == IsLong(f, probeOk)
        bounded == f.large \/ long
        y == Decoded(f, bounded)
    IN [name |-> IF bounded THEN "memory_bounded" ELSE "standard",
        probed |-> probeOk,
        sr |-> y.sr,
        hop |-> HopLength(y.sr, fps, long),
        chroma |-> IF long THEN "stft" ELSE "cqt",
        tempogram |-> IF long THEN "zeros" ELSE "computed"]

NoCall == [fps |-> 30, force |-> FALSE, load_exc |-> "none", decoded |-> FALSE,
           strategy |-> NoStrategy]

NoResult == [status |-> "none", fps |-> 30, force |-> FALSE, source |-> "none",
             timeline |-> NoTimeline, decoded |-> FALSE, load_exc |-> "none",
             save_failed |-> FALSE, raised_in |-> "none", exc |-> "none",
             touched |-> FALSE, strategy |-> NoStrategy]

Returned(src, tl) ==
    [status |-> "returned", fps |-> call.fps, force |-> call.force, source |-> src,
     timeline |-> tl, decoded |-> (src = "computed"), load_exc |-> call.load_exc,
     save_failed |-> FALSE, raised_in |-> "none", exc |-> "none",
     touched |-> touched, strategy |-> call.strategy]

Raised(where, e, dec) ==
    [status |-> "raised", fps |-> call.fps, force |-> call.force, source |-> "none",
     timeline |-> NoTimeline, decoded |-> dec,
     load_exc |-> IF where = "load" THEN e ELSE call.load_exc,
     save_failed |-> (where = "save"), raised_in |-> where, exc |-> e,
     touched |-> touched, strategy |-> call.strategy]

\* analyze() ends: it returns or an exception leaves it
Finish(result) ==
    /\ prev' = last
    /\ last' = result
    /\ an_pc' = "idle"
    /\ touched' = FALSE

AnalyzerInit ==
    /\ file \in Files
    /\ cache = [f \in FpsValues |-> NoArtifact]
    /\ touched = FALSE
    /\ an_pc = "idle"
    /\ call = NoCall
    /\ computed = NoTimeline
    /\ last = NoResult
    /\ prev = NoResult
    /\ ncalls = 0

AnalyzerIdle ==
    /\ AnalyzerInit
    /\ file = [sr |-> TargetSr, n |-> 0, large |-> FALSE]

\* lines 50-58: analyze(audio_path, fps, force_reanalyze)
AnalyzeCall ==
    /\ an_pc = "idle" /\ ncalls < MaxCalls
    /\ \E fps \in FpsValues, force \in BOOLEAN :
         call' = [fps |-> fps, force |-> force, load_exc |-> "none",
                  decoded |-> FALSE, strategy |-> NoStrategy]
    /\ an_pc' = "lookup"
    /\ ncalls' = ncalls + 1
    /\ UNCHANGED <<file, cache, touched, computed, last, prev>>

\* line 60: if not force_reanalyze and cache_path.exists()
CacheLookup ==
    /\ an_pc = "lookup"
    /\ an_pc' = IF ~call.force /\ cache[call.fps].kind # "absent"
                THEN "load" ELSE "compute"
    /\ UNCHANGED <<file, cache, touched, call, computed, last, prev, ncalls>>

\* lines 61-66: return self._load_from_cache(cache_path), or fall through on
\* one of the caught exceptions
LoadFromCache ==
    /\ an_pc = "load"
    /\ \E o \in LoadOutcomes(cache[call.fps]) :
         IF o.exc = "none"
         THEN /\ Finish(Returned("cache", o.timeline))
              /\ UNCHANGED call
         ELSE IF o.exc \in Caught
         THEN /\ an_pc' = "compute"
              /\ call' = [call EXCEPT !.load_exc = o.exc]
              /\ UNCHANGED <<touched, last, prev>>
         ELSE /\ Finish(Raised("load", o.exc, FALSE))
              /\ UNCHANGED call
    /\ UNCHANGED <<file, cache, computed, ncalls>>

\* lines 68-299: probe the duration, pick the strategy, decode the audio and
\* build the AudioFeatures; _normalize raises ValueError on an empty array,
\* which is what a target of zero frames gives it
ComputeFeatures ==
    /\ an_pc = "compute"
    /\ \E probeOk \in BOOLEAN, decodeOk \in BOOLEAN :
         LET long == IsLong(file, probeOk)
             memoryBounded == file.large \/ long
             y == Decoded(file, memoryBounded)
         IN IF ~decodeOk
            THEN /\ Finish(Raised("compute", "DecodeError", FALSE))
                 /\ UNCHANGED <<call, computed>>
            ELSE IF TargetFrames(y.len, y.sr, call.fps) = 0
            THEN /\ Finish(Raised("compute", "ValueError", TRUE))
                 /\ UNCHANGED <<call, computed>>
            ELSE /\ computed' = ExtractFeatures(y.len, y.sr, call.fps, long)
                 /\ call' = [call EXCEPT !.decoded = TRUE,
                                         !.strategy = StrategyOf(file, probeOk, call.fps)]
                 /\ an_pc' = "save"
                 /\ UNCHANGED <<touched, last, prev>>
    /\ UNCHANGED <<file, cache, ncalls>>

\* lines 301-303 and 377-390: self._save_cache(cache_path, features), then
\* return features; an OSError of np.savez_compressed is caught nowhere and
\* may leave a partial file behind
SaveCache ==
    /\ an_pc = "save"
    /\ \/ /\ cache' = [cache EXCEPT ![call.fps] =
                          [kind |-> "valid", data |-> Serialize(computed)]]
          /\ Finish(Returned("computed", computed))
       \/ /\ \E partial \in BOOLEAN :
               cache' = IF partial
                        THEN [cache EXCEPT ![call.fps].kind = "truncated"]
                        ELSE cache
          /\ Finish(Raised("save", "OSError", TRUE))
    /\ UNCHANGED <<file, call, computed, ncalls>>

\* the artifact is damaged from outside between two calls
CorruptArtifact ==
    /\ an_pc = "idle" /\ ncalls < MaxCalls
    /\ \E f \in FpsValues, k \in CorruptKinds :
         /\ cache[f].kind = "valid"
         /\ cache' = [cache EXCEPT ![f].kind = k]
    /\ touched' = TRUE
    /\ UNCHANGED <<file, an_pc, call, computed, last, prev, ncalls>>

\* the artifact is deleted from outside, possibly between exists() and np.load
RemoveArtifact ==
    /\ an_pc \in {"idle", "load"}
    /\ an_pc = "idle" => ncalls < MaxCalls
    /\ \E f \in FpsValues :
         /\ cache[f].kind # "absent"
         /\ cache' = [cache EXCEPT ![f] = NoArtifact]
    /\ touched' = TRUE
    /\ UNCHANGED <<file, an_pc, call, computed, last, prev, ncalls>>

(***************************************************************************)
(* Concurrent calls of AudioAnalyzer.analyze on one file and fps.  The     *)
(* callers share the artifact cache[rc_fps]; nothing locks it, and          *)
(* np.savez_compressed writes the archive in place.                        *)
(***************************************************************************)
Callers == 1..NumCallers

Caller(pos) == [pc |-> pos, status |-> "none", source |-> "none", exc |-> "none",
                raised_in |-> "none", timeline |-> NoTimeline]

\* what _extract_features computes for the file; it depends on the file and
\* the fps only
Expected(f, fps) ==
    LET long == IsLong(f, TRUE)
        y == Decoded(f, f.large \/ long)
    IN [frames |-> TargetFrames(y.len, y.sr, fps),
        timeline |-> ExtractFeatures(y.len, y.sr, fps, long)]

RaceIdle ==
    /\ rc_fps = 30
    /\ callers = [c \in Callers |-> Caller("idle")]
    /\ writing = {}

RaceInit ==
    /\ rc_fps \in FpsValues
    /\ callers = [c \in Callers |-> Caller("lookup")]
    /\ writing = {}
    /\ file \in Files
    /\ \/ cache = [f \in FpsValues |-> NoArtifact]
       \/ /\ Expected(file, rc_fps).frames > 0
          /\ cache = [f \in FpsValues |->
                        IF f = rc_fps
                        THEN [kind |-> "valid",
                              data |-> Serialize(Expected(file, rc_fps).timeline)]
                        ELSE NoArtifact]
    /\ touched = FALSE
    /\ an_pc = "idle"
    /\ call = NoCall
    /\ computed = NoTimeline
    /\ last = NoResult
    /\ prev = NoResult
    /\ ncalls = 0

\* line 60: if not force_reanalyze and cache_path.exists()
RcLookup(c) ==
    /\ callers[c].pc = "lookup"
    /\ callers' = [callers EXCEPT ![c].pc =
                      IF cache[rc_fps].kind # "absent" THEN "load" ELSE "compute"]
    /\ UNCHANGED <<rc_fps, writing, cache>>

\* lines 61-66: _load_from_cache on whatever the file holds at this moment
RcLoad(c) ==
    /\ callers[c].pc = "load"
    /\ \E o \in LoadOutcomes(cache[rc_fps]) :
         callers' = [callers EXCEPT ![c] =
            IF o.exc = "none"
            THEN [pc |-> "done", status |-> "returned", source |-> "cache",
                  exc |-> "none", raised_in |-> "none", timeline |-> o.timeline]
            ELSE IF o.exc \in Caught
            THEN [@ EXCEPT !.pc = "compute", !.exc = o.exc]
            ELSE [pc |-> "done", status |-> "raised", source |-> "none",
                  exc |-> o.exc, raised_in |-> "load", timeline |-> NoTimeline]]
    /\ UNCHANGED <<rc_fps, writing, cache>>

\* lines 68-299: decode and extract; _normalize raises on zero target frames
RcCompute(c) ==
    /\ callers[c].pc = "compute"
    /\ callers' = [callers EXCEPT ![c] =
          IF Expected(file, rc_fps).frames = 0
          THEN [pc |-> "done", status |-> "raised", source |-> "none",
                exc |-> "ValueError", raised_in |-> "compute",
                timeline |-> NoTimeline]
          ELSE [@ EXCEPT !.pc = "save",
                         !.timeline = Expected(file, rc_fps).timeline]]
    /\ UNCHANGED <<rc_fps, writing, cache>>

\* line 389: np.savez_compressed opens the artifact for writing, which
\* creates it or truncates it to zero bytes
RcOpenArtifact(c) ==
    /\ callers[c].pc = "save"
    /\ callers' = [callers EXCEPT ![c].pc = "write"]
    /\ writing' = writing \cup {c}
    /\ cache' = [cache EXCEPT ![rc_fps].kind = "empty"]
    /\ UNCHANGED rc_fps

\* the arrays are written member by member: the file is an archive without
\* its central directory
RcWriteArtifact(c) ==
    /\ callers[c].pc = "write"
    /\ callers' = [callers EXCEPT ![c].pc = "close"]
    /\ cache' = [cache EXCEPT ![rc_fps].kind = "truncated"]
    /\ UNCHANGED <<rc_fps, writing>>

\* the archive is closed and analyze returns the computed features; the file
\* is complete once no other caller is still writing it (every caller writes
\* the same bytes)
RcCloseArtifact(c) ==
    /\ callers[c].pc = "close"
    /\ writing' = writing \ {c}
    /\ cache' = [cache EXCEPT ![rc_fps] =
                    IF writing' = {}
                    THEN [kind |-> "valid", data |-> Serialize(callers[c].timeline)]
                    ELSE [@ EXCEPT !.kind = "truncated"]]
    /\ callers' = [callers EXCEPT ![c] =
                      [@ EXCEPT !.pc = "done", !.status = "returned",
                                !.source = "computed"]]
    /\ UNCHANGED rc_fps

(***************************************************************************)
(* UndoRedoManager (keyboard_shortcuts.py, lines 179-252).  A state is a   *)
(* dict with one entry "v"; its value is an int or a tuple of ints, as the *)
(* resolution of a config is.                                              *)
(***************************************************************************)
IntValue(n) == [type |-> "int", items |-> <<n>>]
TupleValue(items) == [type |-> "tuple", items |-> items]

States == {[v |-> IntValue(1)], [v |-> IntValue(2)], [v |-> TupleValue(<<1920, 1080>>)]}

\* what undo() and redo() return when there is nothing to undo or redo
NoState == [v |-> [type |-> "NoState", items |-> <<>>]]

\* json.loads(json.dumps(value)): a tuple is written as a JSON array and an
\* array is read back as a list; an int stays an int
JsonValue(value) ==
    IF value.type = "tuple" THEN [type |-> "list", items |-> value.items]
    ELSE value

\* line 207: state_copy = json.loads(json.dumps(state, default=str))
JsonCopy(state) == [v |-> JsonValue(state.v)]

First(stack) == stack[1]
\* stack[-1]
Last(stack) == stack[Len(stack)]
\* stack.pop() leaves stack[:-1]
ButLast(stack) == SubSeq(stack, 1, Len(stack) - 1)

\* lines 218-224
can_undo == Len(undo_stack) > 1
can_redo == Len(redo_stack) > 0

UndoInit ==
    /\ max_history \in 2..MaxHistory
    /\ undo_stack = <<>>
    /\ redo_stack = <<>>
    /\ pushed = <<>>
    /\ undos = 0
    /\ redos = 0
    /\ ur_before = <<>>
    /\ ur_ret = NoState
    /\ ur_phase = "push"

UndoIdle ==
    /\ UndoInit
    /\ max_history = 2

\* push_state, lines 202-216
push_state(state) ==
    /\ Len(pushed) <= max_history
    /\ LET appended == Append(undo_stack, JsonCopy(state))
       IN undo_stack' = IF Len(appended) > max_history THEN Tail(appended)
                        ELSE appended
    /\ redo_stack' = <<>>
    /\ pushed' = Append(pushed, state)
    /\ ur_phase' = IF ur_phase = "push" THEN "push" ELSE "other"
    /\ UNCHANGED <<max_history, undos, redos, ur_before, ur_ret>>

\* undo, lines 226-238
undo ==
    /\ undos <= Len(pushed)
    /\ IF ~can_undo
       THEN /\ ur_ret' = NoState
            /\ UNCHANGED <<undo_stack, redo_stack>>
       ELSE /\ undo_stack' = ButLast(undo_stack)
            /\ redo_stack' = Append(redo_stack, Last(undo_stack))
            /\ ur_ret' = IF undo_stack' # <<>> THEN Last(undo_stack') ELSE NoState
    /\ IF ur_phase \in {"push", "undo"}
       THEN /\ undos' = undos + 1
            /\ ur_before' = IF ur_phase = "push" THEN undo_stack ELSE ur_before
            /\ ur_phase' = "undo"
       ELSE /\ ur_phase' = "other"
            /\ UNCHANGED <<undos, ur_before>>
    /\ UNCHANGED <<max_history, pushed, redos>>

\* redo, lines 240-247
redo ==
    /\ redos <= undos
    /\ IF ~can_redo
       THEN /\ ur_ret' = NoState
            /\ UNCHANGED <<undo_stack, redo_stack>>
       ELSE /\ redo_stack' = ButLast(redo_stack)
            /\ undo_stack' = Append(undo_stack, Last(redo_stack))
            /\ ur_ret' = Last(redo_stack)
    /\ IF ur_phase \in {"undo", "redo"}
       THEN /\ redos' = redos + 1
            /\ ur_phase' = "redo"
       ELSE /\ ur_phase' = "other"
            /\ UNCHANGED redos
    /\ UNCHANGED <<max_history, pushed, undos, ur_before>>

\* clear, lines 249-252; the history of the model starts afresh
clear ==
    /\ undo_stack' = <<>>
    /\ redo_stack' = <<>>
    /\ pushed' = <<>>
    /\ undos' = 0
    /\ redos' = 0
    /\ ur_before' = <<>>
    /\ ur_ret' = NoState
    /\ ur_phase' = "push"
    /\ UNCHANGED max_history

(***************************************************************************)
(* RealtimeAudioCapture (realtime.py).  The sound driver's thread runs     *)
(* _audio_callback for one block after the other; another thread calls    *)
(* get_audio_block.  Each operation of queue.Queue is atomic, the steps    *)
(* between them are not.  Blocks are numbered in the order of delivery.    *)
(***************************************************************************)
\* line 71: queue.Queue(maxsize=10)
QueueMaxsize == 10

\* what get_audio_block returns after its timeout
NoBlock == 0

CaptureInit ==
    /\ audio_queue = <<>>
    /\ cb_pc = "idle"
    /\ delivered = 0
    /\ enqueued = {}
    /\ got = NoBlock

CaptureIdle == CaptureInit

\* the driver calls _audio_callback with the next block, lines 78-81
CbEnter ==
    /\ cb_pc = "idle"
    /\ delivered < MaxBlocks
    /\ delivered' = delivered + 1
    /\ cb_pc' = "put"
    /\ UNCHANGED <<audio_queue, enqueued, got>>

\* line 85: put_nowait stores the block, or raises queue.Full
CbPut ==
    /\ cb_pc = "put"
    /\ IF Len(audio_queue) < QueueMaxsize
       THEN /\ audio_queue' = Append(audio_queue, delivered)
            /\ enqueued' = enqueued \cup {delivered}
            /\ cb_pc' = "callback"
       ELSE /\ cb_pc' = "full"
            /\ UNCHANGED <<audio_queue, enqueued>>
    /\ UNCHANGED <<delivered, got>>

\* line 89: get_nowait drops the oldest block, or raises queue.Empty, which
\* lines 91-92 swallow
CbGetNowait ==
    /\ cb_pc = "full"
    /\ IF audio_queue # <<>>
       THEN /\ audio_queue' = Tail(audio_queue)
            /\ cb_pc' = "reput"
       ELSE /\ cb_pc' = "callback"
            /\ UNCHANGED audio_queue
    /\ UNCHANGED <<delivered, enqueued, got>>

\* line 90: the second put_nowait; a queue.Full here leaves the callback
CbReput ==
    /\ cb_pc = "reput"
    /\ IF Len(audio_queue) < QueueMaxsize
       THEN /\ audio_queue' = Append(audio_queue, delivered)
            /\ enqueued' = enqueued \cup {delivered}
            /\ cb_pc' = "callback"
       ELSE /\ cb_pc' = "idle"
            /\ UNCHANGED <<audio_queue, enqueued>>
    /\ UNCHANGED <<delivered, got>>

\* lines 95-96: the user callback, then the return to the driver
CbReturn ==
    /\ cb_pc = "callback"
    /\ cb_pc' = "idle"
    /\ UNCHANGED <<audio_queue, delivered, enqueued, got>>

\* get_audio_block, lines 133-138: the oldest block, or None after the timeout
get_audio_block ==
    /\ IF audio_queue # <<>>
       THEN /\ got' = Head(audio_queue)
            /\ audio_queue' = Tail(audio_queue)
       ELSE /\ got' = NoBlock
            /\ UNCHANGED audio_queue
    /\ UNCHANGED <<cb_pc, delivered, enqueued>>

(***************************************************************************)
(* The encoder process and the three pipes subprocess.Popen gives it       *)
(* (pipeline.py, lines 150-184).  The encoder reads frames from stdin      *)
(* until end of file and then exits; after each frame it may log to        *)
(* stderr.  A write to a full pipe blocks until the other side reads.      *)
(***************************************************************************)
PipesInit ==
    /\ pl_pc = "loop"
    /\ to_write \in 1..MaxFrames
    /\ stdin_pipe = 0
    /\ stdin_closed = FALSE
    /\ stderr_pipe = 0
    /\ enc_log \in 0..MaxLog
    /\ enc_state = "running"

PipesIdle ==
    /\ PipesInit
    /\ to_write = 1
    /\ enc_log = 0

\* line 166: process.stdin.write(frame.tobytes()) returns once the pipe took
\* the frame
WriteFrame ==
    /\ pl_pc = "loop" /\ to_write > 0
    /\ stdin_pipe < PipeCapacity
    /\ stdin_pipe' = stdin_pipe + 1
    /\ to_write' = to_write - 1
    /\ UNCHANGED <<pl_pc, stdin_closed, stderr_pipe, enc_log, enc_state>>

\* lines 179-180: process.stdin.close(), then process.wait() is entered
CloseStdin ==
    /\ pl_pc = "loop" /\ to_write = 0
    /\ stdin_closed' = TRUE
    /\ pl_pc' = "wait"
    /\ UNCHANGED <<to_write, stdin_pipe, stderr_pipe, enc_log, enc_state>>

\* line 180: process.wait() returns once the encoder has exited
Wait ==
    /\ pl_pc = "wait"
    /\ enc_state = "exited"
    /\ pl_pc' = "waited"
    /\ UNCHANGED <<to_write, stdin_pipe, stdin_closed, stderr_pipe, enc_log, enc_state>>

\* lines 182-184: stderr is read only now, and only after a non-zero exit
CheckReturncode ==
    /\ pl_pc = "waited"
    /\ pl_pc' = "done"
    /\ \/ stderr_pipe' = 0
       \/ UNCHANGED stderr_pipe
    /\ UNCHANGED <<to_write, stdin_pipe, stdin_closed, enc_log, enc_state>>

\* the encoder takes a frame from stdin and has some log output to write
EncoderReads ==
    /\ enc_state = "running" /\ enc_log = 0
    /\ stdin_pipe > 0
    /\ stdin_pipe' = stdin_pipe - 1
    /\ enc_log' \in 0..MaxLog
    /\ UNCHANGED <<pl_pc, to_write, stdin_closed, stderr_pipe, enc_state>>

\* the encoder writes a log chunk to stderr once the pipe has room for it
EncoderLogs ==
    /\ enc_state = "running" /\ enc_log > 0
    /\ stderr_pipe < PipeCapacity
    /\ stderr_pipe' = stderr_pipe + 1
    /\ enc_log' = enc_log - 1
    /\ UNCHANGED <<pl_pc, to_write, stdin_pipe, stdin_closed, enc_state>>

\* the encoder meets end of file on stdin and exits
EncoderExits ==
    /\ enc_state = "running" /\ enc_log = 0
    /\ stdin_pipe = 0 /\ stdin_closed
    /\ enc_state' = "exited"
    /\ UNCHANGED <<pl_pc, to_write, stdin_pipe, stdin_closed, stderr_pipe, enc_log>>

(***************************************************************************)
(* The cache key of an audio file that is modified between calls of        *)
(* analyze (analyzer.py, lines 38-66).  The content of a file is numbered; *)
(* the timeline computed from a content is named by that number.           *)
(***************************************************************************)
Sizes == {1, 12}
Mtimes == {3, 23}

DigitChars == <<"0", "1", "2", "3", "4", "5", "6", "7", "8", "9">>

\* str(n) of a natural number, as a sequence of characters
RECURSIVE Digits(_)
Digits(n) ==
    IF n < 10 THEN <<DigitChars[n + 1]>>
    ELSE Digits(n \div 10) \o <<DigitChars[(n % 10) + 1]>>

KeyStringJoined(size, mtime, fps) == Digits(size) \o Digits(mtime) \o Digits(fps)
\* line 43: f"{file_stat.st_size}_{file_stat.st_mtime}_{fps}"
KeyString(size, mtime, fps) ==
    Digits(size) \o <<"_">> \o Digits(mtime) \o <<"_">> \o Digits(fps)

\* lines 42-44: the md5 digest names the artifact; distinct strings get
\* distinct digests
CacheKey(f, fps) == <<"md5">> \o KeyString(f.size, f.mtime, fps)

NoReturn == [fps |-> 0, key |-> <<>>, content |-> 0, source |-> "none", edits |-> 0]

KeyInit ==
    /\ audio \in [size : Sizes, mtime : Mtimes, content : {1}]
    /\ audio_prev = audio
    /\ artifacts = <<>>
    /\ edits = 0
    /\ key_ret = NoReturn

KeyIdle ==
    /\ KeyInit
    /\ audio = [size |-> 1, mtime |-> 3, content |-> 1]

\* the file at audio_path is rewritten: new content, and a size or a
\* modification time that differs from the one before
ModifyAudio ==
    /\ edits < MaxEdits
    /\ \E s \in Sizes, m \in Mtimes :
         /\ <<s, m>> # <<audio.size, audio.mtime>>
         /\ audio' = [size |-> s, mtime |-> m, content |-> audio.content + 1]
    /\ audio_prev' = audio
    /\ edits' = edits + 1
    /\ UNCHANGED <<artifacts, key_ret>>

\* analyze(audio_path, fps, force_reanalyze), lines 57-95 and 301-303: an
\* artifact under the file's key is returned, else the file is analysed and
\* the timeline saved under the key
AnalyzeAudio ==
    \E fps \in FpsValues, force \in BOOLEAN :
        LET key == CacheKey(audio, fps)
        IN IF ~force /\ key \in DOMAIN artifacts
           THEN /\ key_ret' = [fps |-> fps, key |-> key, content |-> artifacts[key],
                               source |-> "cache", edits |-> edits]
                /\ UNCHANGED <<audio, audio_prev, artifacts, edits>>
           ELSE /\ artifacts' = (key :> audio.content) @@ artifacts
                /\ key_ret' = [fps |-> fps, key |-> key, content |-> audio.content,
                               source |-> "computed", edits |-> edits]
                /\ UNCHANGED <<audio, audio_prev, edits>>

PipelineIdle ==
    /\ PipelineInit
    /\ kind = "render" /\ ~preview_mode /\ preview_duration = 50
    /\ ~has_callback /\ ~parallel /\ ~grain
    /\ export_profile = NoProfile
    /\ config = [resolution |-> FullResolution, fps |-> 60]

\* one run of the render pipeline
Init == PipelineInit /\ ParallelIdle /\ AnalyzerIdle /\ StreamingIdle /\ PostIdle /\ RaceIdle
            /\ UndoIdle /\ CaptureIdle /\ PipesIdle /\ KeyIdle
Next ==
    \/ PreviewOverride /\ UNCHANGED exceptPipeline
    \/ VerifyFfmpeg /\ UNCHANGED exceptPipeline
    \/ ValidateAudio /\ UNCHANGED exceptPipeline
    \/ Analyze /\ UNCHANGED exceptPipeline
    \/ SetupVisualizer /\ UNCHANGED exceptPipeline
    \/ StartRender /\ UNCHANGED exceptPipeline
    \/ RenderFrame /\ UNCHANGED exceptPipeline
    \/ EncoderOpensOutput /\ UNCHANGED exceptPipeline
    \/ FinishEncoding /\ UNCHANGED exceptPipeline
    \/ MuxAudio /\ UNCHANGED exceptPipeline
Spec == Init /\ [][Next]_vars

\* one call of render_frames_parallel
InitParallel == ParallelInit /\ PipelineIdle /\ AnalyzerIdle /\ StreamingIdle /\ PostIdle /\ RaceIdle
            /\ UndoIdle /\ CaptureIdle /\ PipesIdle /\ KeyIdle
NextParallel ==
    \/ ReturnEmpty /\ UNCHANGED exceptParallel
    \/ RenderDirect /\ UNCHANGED exceptParallel
    \/ SubmitBatches /\ UNCHANGED exceptParallel
    \/ CollectBatch /\ UNCHANGED exceptParallel
    \/ SortAndReturn /\ UNCHANGED exceptParallel
SpecParallel == InitParallel /\ [][NextParallel]_vars

\* one call of render_to_file
InitStreaming == StreamingInit /\ PipelineIdle /\ AnalyzerIdle /\ PostIdle /\ RaceIdle
            /\ UndoIdle /\ CaptureIdle /\ PipesIdle /\ KeyIdle
NextStreaming ==
    \/ StSubmit /\ UNCHANGED exceptStreaming
    \/ StWorker /\ UNCHANGED exceptStreaming
    \/ StCollect /\ UNCHANGED exceptStreaming
    \/ StUnwind /\ UNCHANGED exceptStreaming
    \/ StOpenOutput /\ UNCHANGED exceptStreaming
    \/ StConcat /\ UNCHANGED exceptStreaming
    \/ StReturn /\ UNCHANGED exceptStreaming
SpecStreaming == InitStreaming /\ [][NextStreaming]_vars

\* calls of PostProcessor.apply on one frame
InitPost == PostInit /\ PipelineIdle /\ ParallelIdle /\ AnalyzerIdle /\ StreamingIdle /\ RaceIdle
            /\ UndoIdle /\ CaptureIdle /\ PipesIdle /\ KeyIdle
NextPost == PostProcessApply /\ UNCHANGED exceptPost
SpecPost == InitPost /\ [][NextPost]_vars

\* calls of analyze() on one audio file, with the cache open to outside damage
InitAnalyzer == AnalyzerInit /\ PipelineIdle /\ ParallelIdle /\ StreamingIdle /\ PostIdle /\ RaceIdle
            /\ UndoIdle /\ CaptureIdle /\ PipesIdle /\ KeyIdle
NextAnalyzer ==
    \/ AnalyzeCall /\ UNCHANGED exceptAnalyzer
    \/ CacheLookup /\ UNCHANGED exceptAnalyzer
    \/ LoadFromCache /\ UNCHANGED exceptAnalyzer
    \/ ComputeFeatures /\ UNCHANGED exceptAnalyzer
    \/ SaveCache /\ UNCHANGED exceptAnalyzer
    \/ CorruptArtifact /\ UNCHANGED exceptAnalyzer
    \/ RemoveArtifact /\ UNCHANGED exceptAnalyzer
SpecAnalyzer == InitAnalyzer /\ [][NextAnalyzer]_vars

\* concurrent calls of analyze() on one file and fps
InitRace == RaceInit /\ PipelineIdle /\ ParallelIdle /\ StreamingIdle /\ PostIdle
            /\ UndoIdle /\ CaptureIdle /\ PipesIdle /\ KeyIdle
NextRace ==
    \/ \E c \in Callers : RcLookup(c) /\ UNCHANGED exceptRace
    \/ \E c \in Callers : RcLoad(c) /\ UNCHANGED exceptRace
    \/ \E c \in Callers : RcCompute(c) /\ UNCHANGED exceptRace
    \/ \E c \in Callers : RcOpenArtifact(c) /\ UNCHANGED exceptRace
    \/ \E c \in Callers : RcWriteArtifact(c) /\ UNCHANGED exceptRace
    \/ \E c \in Callers : RcCloseArtifact(c) /\ UNCHANGED exceptRace
SpecRace == InitRace /\ [][NextRace]_vars

\* one UndoRedoManager and the calls made on it
InitUndo == UndoInit /\ PipelineIdle /\ ParallelIdle /\ AnalyzerIdle /\ StreamingIdle
            /\ PostIdle /\ RaceIdle /\ CaptureIdle /\ PipesIdle /\ KeyIdle
NextUndo ==
    \/ (\E state \in States : push_state(state)) /\ UNCHANGED exceptUndo
    \/ undo /\ UNCHANGED exceptUndo
    \/ redo /\ UNCHANGED exceptUndo
    \/ clear /\ UNCHANGED exceptUndo
SpecUndo == InitUndo /\ [][NextUndo]_vars

\* the audio thread in _audio_callback and a consumer in get_audio_block
InitCapture == CaptureInit /\ PipelineIdle /\ ParallelIdle /\ AnalyzerIdle
               /\ StreamingIdle /\ PostIdle /\ RaceIdle /\ UndoIdle /\ PipesIdle /\ KeyIdle
NextCapture ==
    \/ CbEnter /\ UNCHANGED exceptCapture
    \/ CbPut /\ UNCHANGED exceptCapture
    \/ CbGetNowait /\ UNCHANGED exceptCapture
    \/ CbReput /\ UNCHANGED exceptCapture
    \/ CbReturn /\ UNCHANGED exceptCapture
    \/ get_audio_block /\ UNCHANGED exceptCapture
SpecCapture == InitCapture /\ [][NextCapture]_vars

\* the frame loop of _render_video and the encoder process
InitPipes == PipesInit /\ PipelineIdle /\ ParallelIdle /\ AnalyzerIdle /\ StreamingIdle
             /\ PostIdle /\ RaceIdle /\ UndoIdle /\ CaptureIdle /\ KeyIdle
NextPipes ==
    \/ WriteFrame /\ UNCHANGED exceptPipes
    \/ CloseStdin /\ UNCHANGED exceptPipes
    \/ Wait /\ UNCHANGED exceptPipes
    \/ CheckReturncode /\ UNCHANGED exceptPipes
    \/ EncoderReads /\ UNCHANGED exceptPipes
    \/ EncoderLogs /\ UNCHANGED exceptPipes
    \/ EncoderExits /\ UNCHANGED exceptPipes
SpecPipes == InitPipes /\ [][NextPipes]_vars

\* one audio file, modified between calls of analyze
InitKey == KeyInit /\ PipelineIdle /\ ParallelIdle /\ AnalyzerIdle /\ StreamingIdle
           /\ PostIdle /\ RaceIdle /\ UndoIdle /\ CaptureIdle /\ PipesIdle
NextKey ==
    \/ ModifyAudio /\ UNCHANGED exceptKey
    \/ AnalyzeAudio /\ UNCHANGED exceptKey
SpecKey == InitKey /\ [][NextKey]_vars

(***************************************************************************)
(* Properties of the render pipeline                                       *)
(***************************************************************************)

\* C1: the buffers written to the encoder's stdin are the post-processed
\* frames of the indices 0, 1, 2, ... in increasing order, each once; once the
\* loop has ended and stdin is closed they are exactly the frames of
\* 0..frame_count-1, with parallel mode enabled or not.
EncoderInputInOrder ==
    /\ \A k \in 1..Len(written) :
          /\ written[k].index = k - 1
          /\ written[k].bytes \in PostOutputs(RenderFrameOf(k - 1), grain)
    /\ Len(written) <= FrameCount(features)
    /\ (process.stdin = "closed" => Len(written) = FrameCount(features))

EncoderInputWitness ==
    /\ pc = "Done" /\ parallel /\ grain
    /\ Len(written) > ProgressEvery
    /\ \E k \in 1..Len(written) : written[k].bytes # RenderFrameOf(k - 1)

\* C2: run() passes through Idle, EnvironmentChecked, AudioValidated,
\* Analyzed, GeneratorReady, Encoding, Muxing, Done in that order without
\* skipping or revisiting a stage; an error raised in a stage ends the run in
\* Failed, directly after the stage it was raised in.
StagesLinear ==
    LET n == Len(stages)
        core == IF stages[n] = "Failed" THEN SubSeq(stages, 1, n - 1) ELSE stages
    IN /\ pc = stages[n]
       /\ Len(core) >= 1 /\ Len(core) <= Len(StageOrder)
       /\ \A k \in 1..Len(core) : core[k] = StageOrder[k]
       /\ (raised # "none" <=> pc = "Failed")
       /\ (raised # "none" => raised = core[Len(core)] /\ raised # "Done")

StagesFailedWitness ==
    /\ pc = "Failed" /\ raised = "Encoding"
    /\ Len(written) > 0 /\ Len(written) < FrameCount(features)

\* C9: once PreviewPipeline.run has returned or raised, config.visual.resolution
\* and config.visual.fps have the values they had before the call.
PreviewRestored ==
    pc \in {"Done", "Failed"} => config = config0

PreviewRestoredWitness ==
    /\ pc = "Failed" /\ kind = "preview" /\ raised = "Encoding"
    /\ config0 = [resolution |-> FullResolution, fps |-> 60]
    /\ features.fps = PreviewFps

IsOne(x) == x.num = x.den

\* C11: every fraction reported during the Encoding stage, the one of the
\* final frame included, is strictly below 1.0; 1.0 is reported only by the
\* Done step, after the encoder exited with code 0 and muxing succeeded.
EncodingProgressBelowOne ==
    \A k \in 1..Len(progress_calls) :
        IsOne(progress_calls[k]) =>
            /\ pc = "Done"
            /\ k = Len(progress_calls)
            /\ process.state = "exited" /\ process.returncode = 0

Called(name) == \E k \in 1..Len(trace) : trace[k] = name
\* every call of a comes before every call of b
Before(a, b) ==
    \A j, k \in 1..Len(trace) : (trace[j] = a /\ trace[k] = b) => j < k

\* C12: after the last frame the encoder's stdin is closed and then the
\* process is waited for; when the exit code is non-zero, run raises an
\* error that carries the captured stderr, the mux step is never invoked and
\* the Done callback is never issued.
EncoderExitChecked ==
    /\ Called("wait") =>
          /\ Called("stdin.close") /\ Before("stdin.close", "wait")
          /\ Len(written) = FrameCount(features)
          /\ process.state = "exited" /\ process.stdin = "closed"
    /\ (Called("wait") /\ process.returncode # 0) =>
          /\ pc = "Failed"
          /\ error = Exc("RuntimeError", process.stderr)
          /\ ~Called("_mux_audio")
          /\ ~Called("Fertig!")
          /\ "Done" \notin {stages[k] : k \in 1..Len(stages)}

EncoderExitWitness ==
    /\ Called("wait") /\ process.returncode # 0
    /\ has_callback
    /\ process.stderr # ""
    /\ error.detail = process.stderr
    /\ Len(written) > ProgressEvery

\* _render_video has exited: run() is over and the temp file had been created
RenderVideoExited ==
    /\ pc \in {"Done", "Failed"}
    /\ \E k \in 1..(Len(trace) - 1) : trace[k] = "NamedTemporaryFile"

\* C13: the intermediate temp file no longer exists once _render_video has
\* exited, on every exit path: success, an exception of the generator or the
\* post-processor, a failed write, a failed encoder start, a non-zero encoder
\* exit, a mux failure.
TempVideoRemoved ==
    RenderVideoExited => ~temp_video

\* C28: whenever _render_video exits after it started the encoder, normally
\* or with an exception raised while rendering, post-processing or writing,
\* the encoder's stdin has been closed and the process has been waited for;
\* no encoder is left running.
EncoderReapedOnExit ==
    (pc \in {"Done", "Failed"} /\ process # NoProcess) =>
        /\ process.stdin = "closed"
        /\ Called("stdin.close") /\ Called("wait")
        /\ process.state = "exited"

\* C14: analyze is called only after verify_ffmpeg_or_raise and then
\* validate_audio_file have succeeded, in that order; when either check fails,
\* run raises before analyze is called and before any temp file or encoder
\* process is created.
ChecksBeforeAnalysis ==
    /\ Called("analyze") =>
          /\ Len(trace) >= 3
          /\ trace[1] = "verify_ffmpeg_or_raise"
          /\ trace[2] = "validate_audio_file"
          /\ trace[3] = "analyze"
          /\ Len(stages) >= 3
          /\ stages[2] = "EnvironmentChecked" /\ stages[3] = "AudioValidated"
    /\ error.type \in {"FFmpegError", "AudioValidationError"} =>
          /\ pc = "Failed"
          /\ ~Called("analyze")
          /\ ~Called("NamedTemporaryFile") /\ ~Called("Popen")
          /\ features = NoFeatures
          /\ ~temp_video /\ process = NoProcess

ChecksBeforeAnalysisWitness ==
    /\ pc = "Failed" /\ error.type = "AudioValidationError"
    /\ trace = <<"verify_ffmpeg_or_raise", "validate_audio_file">>
    /\ kind = "preview"

\* C15: with parallel mode enabled, the frames of the Encoding loop are
\* obtained through the ParallelRenderer, not by calling render_frame in the
\* loop.
ParallelFramesViaScheduler ==
    parallel => \A k \in 1..Len(written) : written[k].via = "ParallelRenderer"

\* C21: in preview mode the duration is clamped before the frame generator
\* is instantiated, so the generator is constructed with the duration and
\* frame count the Encoding loop iterates over.
GeneratorBuiltOnClampedTimeline ==
    pc \in {"Encoding", "Muxing", "Done"} =>
        visualizer.frame_count = FrameCount(features)

\* C22: no field of the timeline returned by analyze is modified by the
\* pipeline afterwards, in preview mode or in a full render, so its arrays
\* keep the length round(duration * fps) for its own duration field.
TimelineImmutable ==
    Called("analyze") =>
        features.frames = RoundFrames(features.n, features.sample_rate, features.fps)

\* C24: when an export profile is supplied, the profile's resolution, fps and
\* encoder quality settings are the ones used for the encoder invocation,
\* overriding the resolution and fps of the config.
ProfileOverridesConfig ==
    export_profile # NoProfile =>
        \A k \in 1..Len(commands) :
            /\ commands[k].tool = "encode" =>
                  /\ commands[k].size = export_profile.resolution
                  /\ commands[k].rate = export_profile.fps
                  /\ commands[k].preset = export_profile.ffmpeg_preset
                  /\ commands[k].crf = export_profile.ffmpeg_crf
            /\ commands[k].tool = "mux" =>
                  commands[k].audio_bitrate = export_profile.ffmpeg_audio_bitrate

(***************************************************************************)
(* Properties of the parallel renderer                                     *)
(***************************************************************************)
IsAscending(r) == \A k \in 1..(Len(r) - 1) : r[k][1] <= r[k + 1][1]

\* C3: for the index list 0..N-1 the returned list is the list serial
\* rendering in index order produces, for every chunk size, worker count and
\* completion order of the batches.
ParallelEqualsSerial ==
    (pr_state = "returned" /\ frame_indices = Range(Len(frame_indices)))
        => ret = RenderList(Range(Len(frame_indices)))

ParallelEqualsSerialWitness ==
    /\ pr_state = "returned" /\ frame_indices = Range(MaxFrames)
    /\ Len(batches) >= 3
    /\ results # ret
    /\ ret = RenderList(frame_indices)

\* C4: for every input list, sorted or not, the returned list has one pair
\* per input index and is ordered by ascending index, on the direct path as
\* well as on the worker-pool path.
ReturnOrderedByIndex ==
    pr_state = "returned" =>
        /\ Len(ret) = Len(frame_indices)
        /\ {ret[k][1] : k \in 1..Len(ret)} = {frame_indices[k] : k \in 1..Len(frame_indices)}
        /\ IsAscending(ret)

\* C16: when rendering a chunk raises in the worker pool, the call raises and
\* returns no list; the frames of the chunks that did complete are never
\* returned as a partial result.
NoPartialResult ==
    /\ failed # {} => pr_state = "raised"
    /\ pr_state = "raised" => ret = <<>>
    /\ pr_state = "returned" => Len(ret) = Len(frame_indices)

NoPartialResultWitness ==
    /\ pr_state = "raised" /\ failed # {}
    /\ results # <<>> /\ pending # {}
    /\ ret = <<>>

\* C17: every per-chunk temp file created during render_to_file has been
\* deleted by the time render_to_file exits, when it succeeds and when a chunk
\* fails or the concatenation fails.
ChunkFilesRemoved ==
    st_pc \in {"returned", "raised"} => DOMAIN temp_disk = {}

\* the bytes of render_func(i).tobytes() for i in l, in list order
FrameBytes(l) == [k \in 1..Len(l) |-> RenderFrameOf(l[k])]

\* C27: the output file of render_to_file holds the bytes of render_func(i)
\* for i in frame_indices in list order, in whatever order the chunks
\* completed.
OutputInListOrder ==
    st_pc = "returned" => outfile = FrameBytes(frame_indices)

\* a run that returned after a later chunk completed before an earlier one
OutputInListOrderWitness ==
    /\ st_pc = "returned"
    /\ \E k \in 1..(Len(st_order) - 1) : st_order[k] > st_order[k + 1]
    /\ Len(outfile) = MaxFrames

(***************************************************************************)
(* Properties of the post-processor                                        *)
(***************************************************************************)

\* C18: with contrast, saturation and brightness at 1.0 and grain, vignette
\* and chromatic aberration at 0.0, apply returns a frame equal to its input.
NeutralIsIdentity ==
    pp_config = NeutralConfig =>
        \A k \in 1..Len(pp_outputs) : pp_outputs[k] = pp_frame0

NeutralIsIdentityWitness ==
    /\ pp_config = NeutralConfig
    /\ Len(pp_outputs) = MaxApply
    /\ pp_outputs[1] = pp_frame0
    /\ \E x, y \in 1..FrameWidth : pp_frame0[x] # pp_frame0[y]
    /\ \E x \in 1..FrameWidth : pp_frame0[x][1] # pp_frame0[x][3]

\* C19: apply is a pure function of the frame and the configuration: for
\* every configuration, grain > 0 included, two calls on equal input frames
\* return equal output frames, and the input frame is left unmodified.
ApplyIsPure ==
    /\ pp_frame = pp_frame0
    /\ \A j, k \in 1..Len(pp_outputs) : pp_outputs[j] = pp_outputs[k]

(***************************************************************************)
(* Properties of the analyzer and its cache                                *)
(***************************************************************************)
Finished == an_pc = "idle" /\ last.status # "none"

\* the lengths of the per-frame arrays and the column count of chroma
FrameLengths(tl) == {tl.rms.len, tl.onset.len, tl.spectral_centroid.len,
                     tl.spectral_rolloff.len, tl.zero_crossing_rate.len,
                     tl.chroma.cols}

\* C5: when analyze(f, fps) has returned, the file and the store are left
\* alone and analyze(f, fps) is called again without force_reanalyze, the
\* second call returns the timeline read from the store, equal to the first
\* result in every array and scalar, and decodes no audio.
CacheRoundTrip ==
    (/\ Finished
     /\ last.status = "returned" /\ prev.status = "returned"
     /\ last.fps = prev.fps /\ ~last.force /\ ~last.touched)
        => /\ last.source = "cache"
           /\ ~last.decoded
           /\ last.timeline = prev.timeline

CacheRoundTripWitness ==
    /\ Finished
    /\ last.status = "returned" /\ prev.status = "returned"
    /\ last.fps = prev.fps /\ ~last.force /\ ~last.touched
    /\ prev.source = "computed" /\ last.source = "cache"
    /\ ~last.timeline.key.some
    /\ last.timeline.rms.len > 0

\* C6: an artifact that exists but cannot be deserialized never makes analyze
\* fail: unless decoding the audio or writing the store fails, the call
\* recomputes, returns the fresh timeline and overwrites the artifact.
CorruptCacheRecovered ==
    (Finished /\ last.load_exc # "none" /\ last.raised_in \notin {"compute", "save"})
        => /\ last.status = "returned"
           /\ last.source = "computed"
           /\ (~touched => cache[last.fps] =
                   [kind |-> "valid", data |-> Serialize(last.timeline)])

\* C7: a failed write of the computed timeline to the store raises nothing:
\* analyze still returns the computed timeline.
WriteFailureNonFatal ==
    (Finished /\ last.save_failed)
        => /\ last.status = "returned"
           /\ last.source = "computed"

\* C8 as claimed: every per-frame array of a returned timeline has length
\* round(duration * fps), and chroma has that many columns.
FrameArraysRounded ==
    (Finished /\ last.status = "returned")
        => FrameLengths(last.timeline) =
             {RoundFrames(last.timeline.duration.n, last.timeline.duration.sr,
                          last.timeline.fps)}

\* C8 as amended: every per-frame array of a returned timeline has length
\* int(duration * fps), the product truncated, and chroma has that many
\* columns, under either analysis strategy.
FrameArraysTruncated ==
    (Finished /\ last.status = "returned")
        => FrameLengths(last.timeline) =
             {TargetFrames(last.timeline.duration.n, last.timeline.duration.sr,
                           last.timeline.fps)}

FrameArraysWitness ==
    /\ Finished /\ last.status = "returned" /\ last.source = "computed"
    /\ last.timeline.sample_rate # file.sr
    /\ FrameLengths(last.timeline) = {last.timeline.fps * MaxSeconds}
    /\ RoundFrames(last.timeline.duration.n, last.timeline.duration.sr,
                   last.timeline.fps) = last.timeline.fps * MaxSeconds + 1

\* C20: when analyze calls for the same file and fps run concurrently without
\* locking, each returns a valid timeline: a call that finds the other call's
\* artifact missing or only partially written treats it as a cache miss,
\* recomputes, and never fails because of it.
ConcurrentCallsReturn ==
    \A c \in Callers :
        (callers[c].pc = "done" /\ callers[c].raised_in # "compute")
            => /\ callers[c].status = "returned"
               /\ FrameLengths(callers[c].timeline) =
                      {Expected(file, rc_fps).frames}

\* the file's duration is above MAX_STANDARD_DURATION_SEC and the probe saw it
ProbedLong(r) == r.strategy.probed /\ file.n > MAX_STANDARD_DURATION_SEC * file.sr

UndoRedoCycle ==
    /\ ur_phase \in {"undo", "redo"}
    /\ 2 <= Len(pushed) /\ Len(pushed) <= max_history
    /\ 1 <= undos /\ undos < Len(pushed)
    /\ redos <= undos

EveryBlockEnqueued ==
    /\ Len(audio_queue) <= QueueMaxsize
    /\ cb_pc \in {"callback", "idle"} => enqueued = 1..delivered

(***************************************************************************)
(* Properties of the encoder pipes                                         *)
(***************************************************************************)
\* _render_video is blocked: in stdin.write on a full pipe, or in wait()
PipelineWaits ==
    \/ pl_pc = "loop" /\ to_write > 0 /\ stdin_pipe = PipeCapacity
    \/ pl_pc = "wait" /\ enc_state = "running"

\* the encoder is blocked in a write to its full stderr pipe
EncoderWaits ==
    enc_state = "running" /\ enc_log > 0 /\ stderr_pipe = PipeCapacity

\* C26: with an encoder that reads stdin until end of file and then exits,
\* the pipeline and the encoder never wait on each other, whatever the
\* encoder writes to the stdout and stderr pipes the pipeline holds.
NoMutualWait == ~(PipelineWaits /\ EncoderWaits)

(***************************************************************************)
(* Properties of the cache key                                             *)
(***************************************************************************)
\* the latest call of analyze was made after the latest modification
AnalyzedAfterEdit == key_ret # NoReturn /\ edits >= 1 /\ key_ret.edits = edits

====
